---- MODULE Spec2Model ----
(***************************************************************************)
(* Model of the maze engine of HB42-A-Maze-ing                             *)
(* (src/mazegen-source/mazegen/MazeGenerator.py): parameter validation,    *)
(* pattern placement, the randomized depth-first carver, the dead-end      *)
(* injector, their animated variants, the two path finders and the file    *)
(* writer, with the key handlers of src/a_maze_ing.py that call them.      *)
(*                                                                         *)
(* A cell is the integer the code stores: bit 0 top wall, bit 1 right      *)
(* wall, bits 2-3 entry (4) / exit (8) / pattern (0xC), bit 4 the carver's *)
(* visited flag, bits 8+ the depth stamp of find_path_DFS.  A maze is the  *)
(* list of rows the code builds; coordinates are the code's 0-based (x, y) *)
(* and a point is the tuple <<x, y>>.                                      *)
(***************************************************************************)
EXTENDS Integers, Sequences, FiniteSets, TLC

VARIABLES
    mzParam,    \* the CMazeParams record handed to every operation
    rng,        \* the random source: "any" draws freely, "low" always index 0,
                \* "stream" draws what the generator state rstate dictates
    rstate,     \* the state of the generator of the random module
    prev,       \* the grids the earlier generations returned
    animated,   \* TRUE while the grid is the work of generate_animated
    file,       \* the file write_to_file has written: its name and lines
    ret,        \* the flag the last place_42 or write_to_file returned (FALSE before)
    pc,         \* position of the program
    maze,       \* the grid, a list of rows of cells
    m_path,     \* gen_DFS: the frame stack [x, y, q]
    scan,       \* do_not_prefect: number of cells already scanned (row-major)
    removed,    \* number of walls the injector has cleared so far
    path_,      \* result of find_path_BFS ("none" before the call)
    c_path,     \* find_path_DFS: the candidate stack [x, y, q]
    best_path,  \* find_path_DFS: the incumbent best path
    results,    \* the finished calls: the paths the find_path_DFS calls
                \* returned and the paths handed to write_to_file
    yielded,    \* what generate_animated has yielded so far: <<>> for None,
                \* <<x1, y1, x2, y2>> for a redraw rectangle
    config,     \* the configuration file: the name handed to fm_read_config
                \* (<<>> for None), whether it exists, whether loading it
                \* raises, and the parameters it holds
    env         \* the process environment: <<>> while the parameters are
                \* not set, <<p>> once those of the record p are loaded

vars == <<mzParam, rng, rstate, prev, animated, file, ret, pc, maze, m_path,
          scan, removed, path_, c_path, best_path, results,
         yielded, config, env>>

\* no configuration file is involved
NoConfig == [file_name |-> <<>>, exists |-> FALSE, raises |-> FALSE,
             holds |-> <<>>]

----------------------------------------------------------------------------
(* Bounds of the model *)

\* largest number of cells of a grid carved under every random sequence
MaxCells == 6
\* largest number of cells of an arbitrary wall grid handed to find_path_BFS
MaxArbCells == 4
\* number of find_path_DFS calls made on one generated grid
MaxCalls == 2
\* number of generations made in one run of the program
MaxGens == 2
\* number of write_to_file calls made on one generated grid
MaxWrites == 1
\* largest number of steps of a path handed to write_to_file by a caller
MaxWalk == 3
\* largest number of cells of a grid written to a file
MaxWriteCells == 4
MaxRegens == 2

----------------------------------------------------------------------------
(* Integer bit operations of the code *)

\* a & b, bit by bit (a function, so that each argument is evaluated once)
AndBits[a \in Nat, b \in Nat] ==
    IF a = 0 \/ b = 0 THEN 0
    ELSE (a % 2) * (b % 2) + 2 * AndBits[a \div 2, b \div 2]

And(a, b) == AndBits[a, b]

\* a | b, bit by bit
OrBits[a \in Nat, b \in Nat] ==
    IF a = 0 THEN b
    ELSE IF b = 0 THEN a
    ELSE (IF (a % 2) + (b % 2) > 0 THEN 1 ELSE 0)
         + 2 * OrBits[a \div 2, b \div 2]

Or(a, b) == OrBits[a, b]

\* (v & 0xffffff00) >> 8 : the 24 stamp bits above the low byte
StampOf(v) == (v \div 256) % 16777216

X(pt) == pt[1]
Y(pt) == pt[2]

\* Python list indexing: a negative index counts from the end
PyIdx(i, n) == IF i < 0 THEN i + n ELSE i

\* maze[y][x]
Get(mz, x, y) == mz[PyIdx(y, Len(mz)) + 1][PyIdx(x, Len(mz[1])) + 1]

\* maze[y][x] = v
Put(mz, x, y, v) ==
    [mz EXCEPT ![PyIdx(y, Len(mz)) + 1][PyIdx(x, Len(mz[1])) + 1] = v]

----------------------------------------------------------------------------
(* CMazeParams *)

\* Field(ge=1) on width and height, then the model validator
params_validator(p) ==
    /\ p.width >= 1
    /\ p.height >= 1
    /\ p.entry # p.exit
    /\ ~ (X(p.entry) >= p.width \/ Y(p.entry) >= p.height)
    /\ ~ (X(p.exit) >= p.width \/ Y(p.exit) >= p.height)

----------------------------------------------------------------------------
(* Pattern placement *)

p_42 == << <<15, 0, 0, 0, 15, 15, 15>>,
           <<15, 0, 0, 0, 0, 0, 15>>,
           <<15, 15, 15, 0, 15, 15, 15>>,
           <<0, 0, 15, 0, 15, 0, 0>>,
           <<0, 0, 15, 0, 15, 15, 15>> >>

s_42_h == Len(p_42)
s_42_w == Len(p_42[1])

\* int((len(maze[0]) - s_42_w) / 2), int((len(maze) - s_42_h) / 2)
p_42_x(mz) == (Len(mz[1]) - s_42_w) \div 2
p_42_y(mz) == (Len(mz) - s_42_h) \div 2

check_palace(mz, in_, out_, x, y) ==
    IF \/ (y > Y(in_) /\ y > Y(out_))
       \/ (x > X(in_) /\ x > X(out_))
       \/ (Y(in_) >= y + s_42_h /\ Y(out_) >= y + s_42_h)
       \/ (X(in_) >= x + s_42_w /\ Y(out_) >= x + s_42_w)
    THEN TRUE
    ELSE IF /\ (y > Y(in_) \/ Y(in_) >= y + s_42_h
                \/ x > X(in_) \/ X(in_) >= x + s_42_w)
            /\ (y > Y(out_) \/ Y(out_) >= y + s_42_h
                \/ x > X(out_) \/ X(out_) >= x + s_42_w)
    THEN \/ s_42_h < Len(mz)
         \/ (x > X(in_) /\ x > X(out_))
         \/ (x < X(in_) /\ x < X(out_))
    ELSE FALSE

\* stamping loops that write 15 into every cell of the rectangle
Stamp42_WholeBox(mz) ==
    [r \in 1..Len(mz) |->
        [c \in 1..Len(mz[1]) |->
            LET py == r - 1 - p_42_y(mz)
                px == c - 1 - p_42_x(mz)
            IN  IF /\ py >= 0 /\ py < s_42_h /\ px >= 0 /\ px < s_42_w
                THEN 15
                ELSE mz[r][c]]]

\* the stamping loops of place_42
Stamp42(mz) ==
    [r \in 1..Len(mz) |->
        [c \in 1..Len(mz[1]) |->
            LET py == r - 1 - p_42_y(mz)
                px == c - 1 - p_42_x(mz)
            IN  IF /\ py >= 0 /\ py < s_42_h /\ px >= 0 /\ px < s_42_w
                   /\ p_42[py + 1][px + 1] = 15
                THEN 15
                ELSE mz[r][c]]]

\* place_42: the returned flag and the grid it leaves
place_42(mz, in_, out_) ==
    IF s_42_h > Len(mz) THEN [ok |-> FALSE, maze |-> mz]
    ELSE IF s_42_w > Len(mz[1]) THEN [ok |-> FALSE, maze |-> mz]
    ELSE IF ~ check_palace(mz, in_, out_, p_42_x(mz), p_42_y(mz))
    THEN [ok |-> FALSE, maze |-> mz]
    ELSE [ok |-> TRUE, maze |-> Stamp42(mz)]

\* the call of place_42 in generate, on the grid that holds the markers
Place42 ==
    /\ pc = "place_42"
    /\ LET r == place_42(maze, mzParam.entry, mzParam.exit)
       IN  /\ maze' = r.maze
           /\ ret' = r.ok
    /\ pc' = "placed"
    /\ UNCHANGED <<yielded, config, env,
                   mzParam, rng, rstate, prev, animated, file, m_path, scan,
                   removed, path_, c_path, best_path, results>>

----------------------------------------------------------------------------
(* The random module: one generator state, advanced by every draw *)

\* number of states of the generator
RandStates == 16

\* the state one draw leaves behind
NextRandom(rs) == (5 * rs + 3) % RandStates

\* the generator state after a draw made in state rs
After(rs) == IF rng = "stream" THEN NextRandom(rs) ELSE rs

\* a generate that never seeds the generator
Reseed_Never(p, rs) == rs

\* if not (mzParam.seed is None): random.seed(mzParam.seed)
Reseed(p, rs) == IF p.seed = <<>> THEN rs ELSE p.seed[1] % RandStates

\* the index random.choice draws in state rs from a list of n elements
RandBelow(rs, n) == (rs \div 2) % n

(* random.choice over the set bits of a 4-bit mask *)

Bits(q) == {b \in {1, 2, 4, 8} : And(q, b) # 0}

Lowest(S) == CHOOSE b \in S : \A c \in S : b <= c

\* element k (0-based) of the ascending list of S
Nth(S, k) == CHOOSE b \in S : Cardinality({c \in S : c < b}) = k

Choice(S, rs) ==
    IF rng = "any" THEN S
    ELSE IF rng = "low" THEN {Lowest(S)}
    ELSE {Nth(S, RandBelow(rs, Cardinality(S)))}

----------------------------------------------------------------------------
(* generate: grid construction, markers, pattern, start of gen_DFS *)

NewGrid(p) ==
    LET blank == [r \in 1..p.height |-> [c \in 1..p.width |-> 3]]
        withIn == Put(blank, X(p.entry), Y(p.entry), 7)
    IN  Put(withIn, X(p.exit), Y(p.exit), 11)

Placed(p) ==
    IF p.insert_42 THEN place_42(NewGrid(p), p.entry, p.exit).maze
    ELSE NewGrid(p)

\* generate_animated: maze.clear is named but not called, so the new rows
\* are appended to the list handed in, and the markers are written by index
NewGridOn(handed, p) ==
    LET blank == [r \in 1..p.height |-> [c \in 1..p.width |-> 3]]
        withIn == Put(handed \o blank, X(p.entry), Y(p.entry), 7)
    IN  Put(withIn, X(p.exit), Y(p.exit), 11)

PlacedOn(handed, p) ==
    IF p.insert_42 THEN place_42(NewGridOn(handed, p), p.entry, p.exit).maze
    ELSE NewGridOn(handed, p)

\* a carver that pushes the exit without marking it visited
Carving_ExitNotVisited(mz) ==
    LET x == X(mzParam.exit)
        y == Y(mzParam.exit)
    IN  /\ maze' = mz
        /\ m_path' = << <<x, y, 15>> >>
        /\ rstate' = Reseed(mzParam, rstate)
        /\ scan' = 0
        /\ removed' = 0
        /\ pc' = "gen_DFS"

\* the seeding of the generator and the first statements of gen_DFS on the
\* grid mz: the exit is marked visited and pushed
Carving(mz) ==
    LET x == X(mzParam.exit)
        y == Y(mzParam.exit)
    IN  /\ maze' = Put(mz, x, y, Or(Get(mz, x, y), 16))
        /\ m_path' = << <<x, y, 15>> >>
        /\ rstate' = Reseed(mzParam, rstate)
        /\ scan' = 0
        /\ removed' = 0
        /\ pc' = "gen_DFS"

Generate ==
    /\ pc = "init"
    /\ Carving(Placed(mzParam))
    /\ animated' = FALSE
    /\ UNCHANGED <<yielded, config, env,
                   mzParam, rng, prev, file, ret, path_, c_path, best_path,
                   results>>

\* key 1: maze_ = MazeGenerator.generate(c_mz_param) on a program that
\* holds a generated grid
Regenerate ==
    /\ pc = "generated"
    /\ Len(prev) < MaxGens - 1
    /\ prev' = Append(prev, [maze |-> maze, animated |-> animated])
    /\ Carving(Placed(mzParam))
    /\ animated' = FALSE
    /\ UNCHANGED <<yielded, config, env,
                   mzParam, rng, file, ret, path_, c_path, best_path,
                   results>>

\* the value a generator yields for None
None == <<>>

\* generate_animated(mzParam, maze) up to its first carving step, with its
\* three yields of None (after the markers, after place_42, after the
\* seeding); the list handed in is empty or is the grid of the previous
\* generation
GenerateAnimated ==
    /\ pc = "generated"
    /\ Len(prev) < MaxGens - 1
    /\ prev' = Append(prev, [maze |-> maze, animated |-> animated])
    /\ \E handed \in {<<>>, maze} : Carving(PlacedOn(handed, mzParam))
    /\ animated' = TRUE
    /\ yielded' = <<None, None, None>>
    /\ UNCHANGED <<config, env,
                   mzParam, rng, file, ret, path_, c_path, best_path,
                   results>>

\* generate_animated(mzParam, []) as the first generation of the program
StartAnimated ==
    /\ pc = "init"
    /\ Carving(PlacedOn(<<>>, mzParam))
    /\ animated' = TRUE
    /\ yielded' = <<None, None, None>>
    /\ UNCHANGED <<config, env, mzParam, rng, prev, file, ret, path_, c_path,
                   best_path, results>>

\* key 3: two random.randint draws for the colours
RandInt ==
    /\ pc = "generated"
    /\ rstate' = After(After(rstate))
    /\ UNCHANGED <<yielded, config, env,
                   mzParam, rng, prev, animated, file, ret, pc, maze, m_path,
                   scan, removed, path_, c_path, best_path, results>>

\* a carver whose left-neighbour test looks for the pattern only, not for
\* the visited flag
OpenableQ_LeftIgnoresVisited(mz, p, x, y, q) ==
    LET q1 == IF And(q, 1) # 0
              THEN IF y = 0 THEN And(q, 14)
                   ELSE IF And(Get(mz, x, y - 1), 28) >= 12 THEN And(q, 14)
                   ELSE q
              ELSE q
        q2 == IF And(q1, 2) # 0
              THEN IF x = p.width - 1 THEN And(q1, 13)
                   ELSE IF And(Get(mz, x + 1, y), 28) >= 12 THEN And(q1, 13)
                   ELSE q1
              ELSE q1
        q3 == IF And(q2, 4) # 0
              THEN IF y = p.height - 1 THEN And(q2, 11)
                   ELSE IF And(Get(mz, x, y + 1), 28) >= 12 THEN And(q2, 11)
                   ELSE q2
              ELSE q2
        q4 == IF And(q3, 8) # 0
              THEN IF x = 0 THEN And(q3, 7)
                   ELSE IF And(Get(mz, x - 1, y), 12) = 12 THEN And(q3, 7)
                   ELSE q3
              ELSE q3
    IN  q4

\* the four "can this wall be opened" checks of gen_DFS
OpenableQ(mz, p, x, y, q) ==
    LET q1 == IF And(q, 1) # 0
              THEN IF y = 0 THEN And(q, 14)
                   ELSE IF And(Get(mz, x, y - 1), 28) >= 12 THEN And(q, 14)
                   ELSE q
              ELSE q
        q2 == IF And(q1, 2) # 0
              THEN IF x = p.width - 1 THEN And(q1, 13)
                   ELSE IF And(Get(mz, x + 1, y), 28) >= 12 THEN And(q1, 13)
                   ELSE q1
              ELSE q1
        q3 == IF And(q2, 4) # 0
              THEN IF y = p.height - 1 THEN And(q2, 11)
                   ELSE IF And(Get(mz, x, y + 1), 28) >= 12 THEN And(q2, 11)
                   ELSE q2
              ELSE q2
        q4 == IF And(q3, 8) # 0
              THEN IF x = 0 THEN And(q3, 7)
                   ELSE IF And(Get(mz, x - 1, y), 28) >= 12 THEN And(q3, 7)
                   ELSE q3
              ELSE q3
    IN  q4

\* a carver that marks the cell below visited without opening the wall to it
Carve_KeepsBottomWall(mz, x, y, chosen_wall) ==
    CASE chosen_wall = 1 ->
            LET m1 == Put(mz, x, y, And(Get(mz, x, y), 65534))
            IN  Put(m1, x, y - 1, Or(Get(m1, x, y - 1), 16))
      [] chosen_wall = 2 ->
            LET m1 == Put(mz, x, y, And(Get(mz, x, y), 65533))
            IN  Put(m1, x + 1, y, Or(Get(m1, x + 1, y), 16))
      [] chosen_wall = 4 ->
            Put(mz, x, y + 1, Or(Get(mz, x, y + 1), 16))
      [] chosen_wall = 8 ->
            LET m1 == Put(mz, x - 1, y, And(Get(mz, x - 1, y), 65533))
            IN  Put(m1, x - 1, y, Or(Get(m1, x - 1, y), 16))

\* the match statement of gen_DFS: the grid after opening chosen_wall
Carve(mz, x, y, chosen_wall) ==
    CASE chosen_wall = 1 ->
            LET m1 == Put(mz, x, y, And(Get(mz, x, y), 65534))
            IN  Put(m1, x, y - 1, Or(Get(m1, x, y - 1), 16))
      [] chosen_wall = 2 ->
            LET m1 == Put(mz, x, y, And(Get(mz, x, y), 65533))
            IN  Put(m1, x + 1, y, Or(Get(m1, x + 1, y), 16))
      [] chosen_wall = 4 ->
            LET m1 == Put(mz, x, y + 1, And(Get(mz, x, y + 1), 65534))
            IN  Put(m1, x, y + 1, Or(Get(m1, x, y + 1), 16))
      [] chosen_wall = 8 ->
            LET m1 == Put(mz, x - 1, y, And(Get(mz, x - 1, y), 65533))
            IN  Put(m1, x - 1, y, Or(Get(m1, x - 1, y), 16))

\* the cell the new frame is pushed for
Step(x, y, chosen_wall) ==
    CASE chosen_wall = 1 -> <<x, y - 1>>
      [] chosen_wall = 2 -> <<x + 1, y>>
      [] chosen_wall = 4 -> <<x, y + 1>>
      [] chosen_wall = 8 -> <<x - 1, y>>

\* where generate goes once gen_DFS has returned
AfterCarve(p) ==
    IF (~ p.perfect) /\ p.probability_to_del_dead_end > 0
    THEN "do_not_prefect"
    ELSE "generated"

\* one iteration of the while loop of gen_DFS
GenDFSStep ==
    /\ pc = "gen_DFS"
    /\ ~ animated
    /\ Len(m_path) > 0
    /\ LET i == Len(m_path)
           x == m_path[i][1]
           y == m_path[i][2]
           q == OpenableQ(maze, mzParam, x, y, m_path[i][3])
       IN  IF q = 0
           THEN /\ m_path' = SubSeq(m_path, 1, i - 1)
                /\ maze' = maze
                /\ rstate' = rstate
                /\ pc' = IF i = 1 THEN AfterCarve(mzParam) ELSE pc
           ELSE \E chosen_wall \in Choice(Bits(q), rstate) :
                /\ m_path' = Append([m_path EXCEPT ![i][3] = And(q, 15 - chosen_wall)],
                                    <<Step(x, y, chosen_wall)[1],
                                      Step(x, y, chosen_wall)[2], 15>>)
                /\ maze' = Carve(maze, x, y, chosen_wall)
                /\ rstate' = After(rstate)
                /\ pc' = pc
    /\ UNCHANGED <<yielded, config, env,
                   mzParam, rng, prev, animated, file, ret,
                   scan, removed, path_, c_path, best_path,
                   results>>


----------------------------------------------------------------------------
(* do_not_prefect: the dead-end injector *)

\* an injector that counts a bottom wall for every cell
WallMask_BottomAlways(mz, x, y) ==
    LET v0 == And(Get(mz, x, y), 3)
        v1 == IF y = 0 THEN Or(v0, 1) ELSE v0
        v2 == IF x = 0 THEN Or(v1, 8)
              ELSE IF And(Get(mz, x - 1, y), 2) # 0 THEN Or(v1, 8)
              ELSE v1
        v3 == Or(v2, 4)
        v4 == IF x = Len(mz[1]) - 1 THEN Or(v3, 2) ELSE v3
    IN  v4

\* the effective wall mask v the injector computes for the scanned cell
WallMask(mz, x, y) ==
    LET v0 == And(Get(mz, x, y), 3)
        v1 == IF y = 0 THEN Or(v0, 1) ELSE v0
        v2 == IF x = 0 THEN Or(v1, 8)
              ELSE IF And(Get(mz, x - 1, y), 2) # 0 THEN Or(v1, 8)
              ELSE v1
        v3 == IF y = Len(mz) - 1 THEN Or(v2, 4)
              ELSE IF And(Get(mz, x, y + 1), 1) # 0 THEN Or(v2, 4)
              ELSE v2
        v4 == IF x = Len(mz[1]) - 1 THEN Or(v3, 2) ELSE v3
    IN  v4

\* an injector that does not look for a pattern cell above the dead end
RemovableW_PatternAbove(mz, x, y, w) ==
    LET w1 == IF And(w, 1) # 0
              THEN IF y = 0 THEN And(w, 14)
                   ELSE w
              ELSE w
        w2 == IF And(w1, 2) # 0
              THEN IF x = Len(mz[1]) - 1 THEN And(w1, 13)
                   ELSE IF And(Get(mz, x + 1, y), 12) = 12 THEN And(w1, 13)
                   ELSE w1
              ELSE w1
        w3 == IF And(w2, 4) # 0
              THEN IF y = Len(mz) - 1 THEN And(w2, 11)
                   ELSE IF And(Get(mz, x, y + 1), 12) = 12 THEN And(w2, 11)
                   ELSE w2
              ELSE w2
        w4 == IF And(w3, 8) # 0
              THEN IF x = 0 THEN And(w3, 7)
                   ELSE IF And(Get(mz, x - 1, y), 12) = 12 THEN And(w3, 7)
                   ELSE w3
              ELSE w3
    IN  w4

\* the walls of mask w the injector may remove
RemovableW(mz, x, y, w) ==
    LET w1 == IF And(w, 1) # 0
              THEN IF y = 0 THEN And(w, 14)
                   ELSE IF And(Get(mz, x, y - 1), 12) = 12 THEN And(w, 14)
                   ELSE w
              ELSE w
        w2 == IF And(w1, 2) # 0
              THEN IF x = Len(mz[1]) - 1 THEN And(w1, 13)
                   ELSE IF And(Get(mz, x + 1, y), 12) = 12 THEN And(w1, 13)
                   ELSE w1
              ELSE w1
        w3 == IF And(w2, 4) # 0
              THEN IF y = Len(mz) - 1 THEN And(w2, 11)
                   ELSE IF And(Get(mz, x, y + 1), 12) = 12 THEN And(w2, 11)
                   ELSE w2
              ELSE w2
        w4 == IF And(w3, 8) # 0
              THEN IF x = 0 THEN And(w3, 7)
                   ELSE IF And(Get(mz, x - 1, y), 12) = 12 THEN And(w3, 7)
                   ELSE w3
              ELSE w3
    IN  w4

\* an injector that clears the bottom wall in the scanned cell's own top bit
RemoveWall_OwnTopBit(mz, x, y, chosen_wall) ==
    CASE chosen_wall = 1 -> Put(mz, x, y, And(Get(mz, x, y), 65534))
      [] chosen_wall = 2 -> Put(mz, x, y, And(Get(mz, x, y), 65533))
      [] chosen_wall = 4 -> Put(mz, x, y, And(Get(mz, x, y), 65534))
      [] chosen_wall = 8 -> Put(mz, x - 1, y, And(Get(mz, x - 1, y), 65533))

\* the match statement of do_not_prefect
RemoveWall(mz, x, y, chosen_wall) ==
    CASE chosen_wall = 1 -> Put(mz, x, y, And(Get(mz, x, y), 65534))
      [] chosen_wall = 2 -> Put(mz, x, y, And(Get(mz, x, y), 65533))
      [] chosen_wall = 4 -> Put(mz, x, y + 1, And(Get(mz, x, y + 1), 65534))
      [] chosen_wall = 8 -> Put(mz, x - 1, y, And(Get(mz, x - 1, y), 65533))

\* (pr >= 100) or (random.random() < 0.01 * pr): the outcomes of the draw
DrawDelete(pr, rs) ==
    IF pr >= 100 THEN {TRUE}
    ELSE IF rng = "any" THEN BOOLEAN
    ELSE IF rng = "low" THEN {TRUE}
    ELSE {100 * rs < pr * RandStates}

\* the generator state after that test: random.random() runs when pr < 100
AfterDraw(pr, rs) == IF pr >= 100 THEN rs ELSE After(rs)

\* one iteration of the inner loop of do_not_prefect (one scanned cell)
DoNotPrefectStep ==
    /\ pc = "do_not_prefect"
    /\ ~ animated
    /\ LET width == Len(maze[1])
           y == scan \div width
           x == scan % width
           v == WallMask(maze, x, y)
           w == RemovableW(maze, x, y, v)
           pr == mzParam.probability_to_del_dead_end
           rs1 == AfterDraw(pr, rstate)
           skip == /\ maze' = maze
                   /\ removed' = removed
       IN  /\ IF And(Get(maze, x, y), 12) # 0
              THEN skip /\ rstate' = rstate
              ELSE IF Cardinality(Bits(v)) # 3
              THEN skip /\ rstate' = rstate
              ELSE \E del \in DrawDelete(pr, rstate) :
                   IF ~ del THEN skip /\ rstate' = rs1
                   ELSE IF w = 0 THEN skip /\ rstate' = rs1
                   ELSE \E chosen_wall \in Choice(Bits(w), rs1) :
                        /\ maze' = RemoveWall(maze, x, y, chosen_wall)
                        /\ removed' = removed + 1
                        /\ rstate' = After(rs1)
           /\ scan' = scan + 1
           /\ pc' = IF scan + 1 = width * Len(maze) THEN "generated" ELSE pc
    /\ UNCHANGED <<yielded, config, env,
                   mzParam, rng, prev, animated, file, ret,
                   m_path, path_, c_path, best_path, results>>

----------------------------------------------------------------------------
(* gen_DFS_animated and do_not_prefect_animated, the generators that
   generate_animated drives with animated = True *)

\* a rectangle that starts at the cell itself
Rectangle_FromCell(x, y) == <<x, y, x + 1, y + 1>>

\* if animated: yield (x-1, y-1, x+1, y+1)
Rectangle(x, y) == <<x - 1, y - 1, x + 1, y + 1>>

\* one iteration of the while loop of gen_DFS_animated, up to the next
\* suspension or, from the last pop, through the final yield None
GenDFSAnimatedStep ==
    /\ pc = "gen_DFS"
    /\ animated
    /\ Len(m_path) > 0
    /\ LET i == Len(m_path)
           x == m_path[i][1]
           y == m_path[i][2]
           q == OpenableQ(maze, mzParam, x, y, m_path[i][3])
       IN  IF q = 0
           THEN /\ m_path' = SubSeq(m_path, 1, i - 1)
                /\ maze' = maze
                /\ rstate' = rstate
                /\ yielded' = IF i = 1 THEN Append(yielded, None) ELSE yielded
                /\ pc' = IF i = 1 THEN AfterCarve(mzParam) ELSE pc
           ELSE \E chosen_wall \in Choice(Bits(q), rstate) :
                /\ m_path' = Append([m_path EXCEPT ![i][3] = And(q, 15 - chosen_wall)],
                                    <<Step(x, y, chosen_wall)[1],
                                      Step(x, y, chosen_wall)[2], 15>>)
                /\ maze' = Carve(maze, x, y, chosen_wall)
                /\ rstate' = After(rstate)
                /\ yielded' = Append(yielded, Rectangle(x, y))
                /\ pc' = pc
    /\ UNCHANGED <<config, env, mzParam, rng, prev, animated, file, ret,
                   scan, removed, path_, c_path, best_path,
                   results>>

\* one iteration of the inner loop of do_not_prefect_animated (one scanned
\* cell), through the final yield None after the last cell
DoNotPrefectAnimatedStep ==
    /\ pc = "do_not_prefect"
    /\ animated
    /\ LET width == Len(maze[1])
           y == scan \div width
           x == scan % width
           v == WallMask(maze, x, y)
           w == RemovableW(maze, x, y, v)
           pr == mzParam.probability_to_del_dead_end
           rs1 == AfterDraw(pr, rstate)
           last == scan + 1 = width * Len(maze)
           skip == /\ maze' = maze
                   /\ removed' = removed
                   /\ yielded' = IF last THEN Append(yielded, None)
                                 ELSE yielded
       IN  /\ IF And(Get(maze, x, y), 12) # 0
              THEN skip /\ rstate' = rstate
              ELSE IF Cardinality(Bits(v)) # 3
              THEN skip /\ rstate' = rstate
              ELSE \E del \in DrawDelete(pr, rstate) :
                   IF ~ del THEN skip /\ rstate' = rs1
                   ELSE IF w = 0 THEN skip /\ rstate' = rs1
                   ELSE \E chosen_wall \in Choice(Bits(w), rs1) :
                        /\ maze' = RemoveWall(maze, x, y, chosen_wall)
                        /\ removed' = removed + 1
                        /\ rstate' = After(rs1)
                        /\ yielded' =
                              IF last
                              THEN Append(Append(yielded, Rectangle(x, y)), None)
                              ELSE Append(yielded, Rectangle(x, y))
           /\ scan' = scan + 1
           /\ pc' = IF last THEN "generated" ELSE pc
    /\ UNCHANGED <<config, env, mzParam, rng, prev, animated, file, ret,
                   m_path, path_, c_path, best_path, results>>


----------------
(* find_path_BFS *)

\* the effective wall mask find_path_BFS computes for the dequeued cell
BFSCell(mz, x, y) ==
    LET height == Len(mz)
        width == Len(mz[1])
        c0 == And(Get(mz, x, y), 3)
        c1 == IF x = 0 \/ And(Get(mz, x - 1, y), 2) # 0 THEN Or(c0, 8) ELSE c0
        c2 == IF y >= height - 1 \/ And(Get(mz, x, y + 1), 1) # 0
              THEN Or(c1, 4) ELSE c1
        c3 == IF y = 0 THEN Or(c2, 1) ELSE c2
        c4 == IF x >= width - 1 THEN Or(c3, 2) ELSE c3
    IN  c4

\* a finder that pushes the neighbour at the front of the queue
Enqueue_AtFront(st, allowed, n, from) ==
    IF allowed /\ n \notin st.visited
    THEN [queue |-> <<n>> \o st.queue,
          visited |-> st.visited \cup {n},
          parent |-> (n :> from) @@ st.parent]
    ELSE st

\* one of the four neighbour blocks: enqueue n when allowed and not yet visited
Enqueue(st, allowed, n, from) ==
    IF allowed /\ n \notin st.visited
    THEN [queue |-> Append(st.queue, n),
          visited |-> st.visited \cup {n},
          parent |-> (n :> from) @@ st.parent]
    ELSE st

\* the "reconstruct path" loop, already reversed
RECURSIVE Reconstruct(_, _, _)
Reconstruct(parent, start, pt) ==
    IF pt = start THEN <<start>>
    ELSE Append(Reconstruct(parent, start, parent[pt]), pt)

\* the while loop of find_path_BFS
RECURSIVE BFSLoop(_, _, _, _)
BFSLoop(mz, start, end, st) ==
    IF st.queue = <<>> THEN <<>>
    ELSE LET cur == Head(st.queue)
             x == X(cur)
             y == Y(cur)
             height == Len(mz)
             width == Len(mz[1])
         IN  IF cur = end THEN Reconstruct(st.parent, start, cur)
             ELSE LET cell == BFSCell(mz, x, y)
                      s0 == [st EXCEPT !.queue = Tail(st.queue)]
                      s1 == Enqueue(s0, And(cell, 1) = 0
                                        /\ 0 <= y - 1 /\ y - 1 < height,
                                    <<x, y - 1>>, cur)
                      s2 == Enqueue(s1, And(cell, 2) = 0
                                        /\ 0 <= x + 1 /\ x + 1 < width,
                                    <<x + 1, y>>, cur)
                      s3 == Enqueue(s2, And(cell, 4) = 0
                                        /\ 0 <= y + 1 /\ y + 1 < height,
                                    <<x, y + 1>>, cur)
                      s4 == Enqueue(s3, And(cell, 8) = 0
                                        /\ 0 <= x - 1 /\ x - 1 < width,
                                    <<x - 1, y>>, cur)
                  IN  BFSLoop(mz, start, end, s4)

find_path_BFS(mz, p) ==
    BFSLoop(mz, p.entry, p.exit,
            [queue |-> <<p.entry>>, visited |-> {p.entry},
             parent |-> [n \in {} |-> <<0, 0>>]])

\* path_ = MazeGenerator.find_path_BFS(maze_, c_mz_param)
FindPathBFS ==
    /\ pc = "generated"
    /\ path_' = find_path_BFS(maze, mzParam)
    /\ pc' = "ready"
    /\ UNCHANGED <<yielded, config, env,
                   mzParam, rng, rstate, prev, animated, file, ret,
                   maze, m_path, scan, removed, c_path,
                   best_path, results>>

----------------------------------------------------------------------------
(* find_path_DFS *)

check_point_in_path(path, x, y) ==
    IF \E i \in 1..Len(path) : path[i][1] = x /\ path[i][2] = y
    THEN CHOOSE i \in 1..Len(path) :
            /\ path[i][1] = x /\ path[i][2] = y
            /\ \A j \in 1..(i - 1) : ~ (path[j][1] = x /\ path[j][2] = y)
    ELSE 0

\* the coordinates of a list of frames; the third component of the frames
\* of best_path is never read by the code
XY(path) == [k \in 1..Len(path) |-> <<path[k][1], path[k][2]>>]

Abs(n) == IF n < 0 THEN -n ELSE n

\* a stamp written with the mask 0xf instead of 0xff
SetStamp_MaskF(mz, x, y, i) == Put(mz, x, y, Or(And(Get(mz, x, y), 15), i * 256))

\* maze[y][x] = (maze[y][x] & 0xff) | (i << 8)
SetStamp(mz, x, y, i) == Put(mz, x, y, Or(And(Get(mz, x, y), 255), i * 256))

\* for j_ in range(from, len(path)): stamp path[j_] with j_   (0-based j_)
RECURSIVE Restamp(_, _, _)
Restamp(mz, path, from) ==
    IF from >= Len(path) THEN mz
    ELSE Restamp(SetStamp(mz, path[from + 1][1], path[from + 1][2], from),
                 path, from + 1)

\* a finder that forgets the right wall of the current cell
PassableQ_IgnoresRightWall(mz, p, cp, x, y, q) ==
    LET q1 == IF y = 0 THEN And(q, 14)
              ELSE IF \/ And(Get(mz, x, y - 1), 12) = 12
                      \/ And(Get(mz, x, y), 1) # 0
                      \/ And(Get(mz, x, y - 1), 32) # 0
                      \/ check_point_in_path(cp, x, y - 1) > 0
              THEN And(q, 14)
              ELSE q
        q2 == IF x = p.width - 1 THEN And(q1, 13)
              ELSE IF \/ And(Get(mz, x + 1, y), 12) = 12
                      \/ And(Get(mz, x + 1, y), 32) # 0
                      \/ check_point_in_path(cp, x + 1, y) > 0
              THEN And(q1, 13)
              ELSE q1
        q3 == IF And(q2, 4) # 0
              THEN IF y = p.height - 1 THEN And(q2, 11)
                   ELSE IF \/ And(Get(mz, x, y + 1), 12) = 12
                           \/ And(Get(mz, x, y + 1), 33) # 0
                           \/ check_point_in_path(cp, x, y + 1) > 0
                   THEN And(q2, 11)
                   ELSE q2
              ELSE q2
        q4 == IF And(q3, 8) # 0
              THEN IF x = 0 THEN And(q3, 7)
                   ELSE IF \/ And(Get(mz, x - 1, y), 12) = 12
                           \/ And(Get(mz, x - 1, y), 34) # 0
                           \/ check_point_in_path(cp, x - 1, y) > 0
                   THEN And(q3, 7)
                   ELSE q3
              ELSE q3
    IN  q4

\* the four "can we go through this passage" checks of find_path_DFS
PassableQ(mz, p, cp, x, y, q) ==
    LET q1 == IF y = 0 THEN And(q, 14)
              ELSE IF \/ And(Get(mz, x, y - 1), 12) = 12
                      \/ And(Get(mz, x, y), 1) # 0
                      \/ And(Get(mz, x, y - 1), 32) # 0
                      \/ check_point_in_path(cp, x, y - 1) > 0
              THEN And(q, 14)
              ELSE q
        q2 == IF x = p.width - 1 THEN And(q1, 13)
              ELSE IF \/ And(Get(mz, x + 1, y), 12) = 12
                      \/ And(Get(mz, x, y), 2) # 0
                      \/ And(Get(mz, x + 1, y), 32) # 0
                      \/ check_point_in_path(cp, x + 1, y) > 0
              THEN And(q1, 13)
              ELSE q1
        q3 == IF And(q2, 4) # 0
              THEN IF y = p.height - 1 THEN And(q2, 11)
                   ELSE IF \/ And(Get(mz, x, y + 1), 12) = 12
                           \/ And(Get(mz, x, y + 1), 33) # 0
                           \/ check_point_in_path(cp, x, y + 1) > 0
                   THEN And(q2, 11)
                   ELSE q2
              ELSE q2
        q4 == IF And(q3, 8) # 0
              THEN IF x = 0 THEN And(q3, 7)
                   ELSE IF \/ And(Get(mz, x - 1, y), 12) = 12
                           \/ And(Get(mz, x - 1, y), 34) # 0
                           \/ check_point_in_path(cp, x - 1, y) > 0
                   THEN And(q3, 7)
                   ELSE q3
              ELSE q3
    IN  q4

\* the direction find_path_DFS takes from (x, y) with passages q open:
\* towards the exit first, then top, right, bottom, left; 0 for none
Direction(x, y, out_x, out_y, q) ==
    LET fallback == IF And(q, 1) # 0 THEN 1
                    ELSE IF And(q, 2) # 0 THEN 2
                    ELSE IF And(q, 4) # 0 THEN 4
                    ELSE IF And(q, 8) # 0 THEN 8
                    ELSE 0
    IN  IF Abs(out_x - x) > Abs(out_y - y)
        THEN IF out_x > x /\ And(q, 2) # 0 THEN 2
             ELSE IF out_x < x /\ And(q, 8) # 0 THEN 8
             ELSE IF out_y > y /\ And(q, 4) # 0 THEN 4
             ELSE IF out_y < y /\ And(q, 1) # 0 THEN 1
             ELSE fallback
        ELSE IF out_y > y /\ And(q, 4) # 0 THEN 4
             ELSE IF out_y < y /\ And(q, 1) # 0 THEN 1
             ELSE IF out_x > x /\ And(q, 2) # 0 THEN 2
             ELSE IF out_x < x /\ And(q, 8) # 0 THEN 8
             ELSE fallback

Pop(cp) == SubSeq(cp, 1, Len(cp) - 1)

\* the move find_path_DFS makes from the top frame with passages q open
MoveFrom(mz, cp, best, x, y, q, d) ==
    IF q = 0 \/ d = 0
    THEN [maze |-> mz, c_path |-> Pop(cp), best_path |-> best]
    ELSE [maze |-> mz,
          c_path |-> Append([cp EXCEPT ![Len(cp)][3] = And(q, 15 - d)],
                            <<Step(x, y, d)[1], Step(x, y, d)[2], 15>>),
          best_path |-> best]

\* the direction chosen for the passages q, then the move
MoveTowards(mz, p, cp, best, x, y, q) ==
    MoveFrom(mz, cp, best, x, y, q, Direction(x, y, X(p.exit), Y(p.exit), q))

\* the passage checks and the move, once the frame survived the pruning
Advance(mz, p, cp, best) ==
    MoveTowards(mz, p, cp, best, cp[Len(cp)][1], cp[Len(cp)][2],
                PassableQ(mz, p, cp, cp[Len(cp)][1], cp[Len(cp)][2],
                          cp[Len(cp)][3]))

\* a search that records every path that reaches the exit, with no test
\* of its length against the incumbent
DFSIter_RecordsEveryPath(mz, p, cp, best) ==
    LET n == Len(cp)
        i == n - 1
        x == cp[n][1]
        y == cp[n][2]
        q == cp[n][3]
        out_x == X(p.exit)
        out_y == Y(p.exit)
        old_ == StampOf(Get(mz, x, y))
        l_ == check_point_in_path(best, x, y)
        stitched == XY(cp) \o SubSeq(best, l_ + 1, Len(best))
    IN  IF x = out_x /\ out_y = y
        THEN [maze |-> mz, c_path |-> Pop(cp), best_path |-> XY(cp)]
        ELSE IF i > 0 /\ (old_ = 0 \/ old_ > i)
        THEN IF old_ > 0 /\ l_ > 0
             THEN [maze |-> Restamp(SetStamp(mz, x, y, i), stitched, i + 1),
                   c_path |-> Pop(cp), best_path |-> stitched]
             ELSE Advance(SetStamp(mz, x, y, i), p, cp, best)
        ELSE IF i > 0 /\ old_ > 0 /\ (old_ < i \/ (q = 15 /\ old_ = i))
        THEN [maze |-> mz, c_path |-> Pop(cp), best_path |-> best]
        ELSE Advance(mz, p, cp, best)

\* one iteration of the while loop of find_path_DFS
DFSIter(mz, p, cp, best) ==
    LET n == Len(cp)
        i == n - 1
        x == cp[n][1]
        y == cp[n][2]
        q == cp[n][3]
        out_x == X(p.exit)
        out_y == Y(p.exit)
        min_distance == Abs(out_x - x) + Abs(out_y - y)
        old_ == StampOf(Get(mz, x, y))
        l_ == check_point_in_path(best, x, y)
        stitched == XY(cp) \o SubSeq(best, l_ + 1, Len(best))
    IN  IF /\ Len(best) > 0
           /\ (n + min_distance > Len(best) \/ n >= Len(best))
        THEN [maze |-> mz, c_path |-> Pop(cp), best_path |-> best]
        ELSE IF x = out_x /\ out_y = y
        THEN [maze |-> mz, c_path |-> Pop(cp),
              best_path |-> IF Len(best) = 0 \/ Len(best) > n
                            THEN XY(cp) ELSE best]
        ELSE IF i > 0 /\ (old_ = 0 \/ old_ > i)
        THEN IF old_ > 0 /\ l_ > 0
             THEN [maze |-> Restamp(SetStamp(mz, x, y, i), stitched, i + 1),
                   c_path |-> Pop(cp), best_path |-> stitched]
             ELSE Advance(SetStamp(mz, x, y, i), p, cp, best)
        ELSE IF i > 0 /\ old_ > 0 /\ (old_ < i \/ (q = 15 /\ old_ = i))
        THEN [maze |-> mz, c_path |-> Pop(cp), best_path |-> best]
        ELSE Advance(mz, p, cp, best)

NumCalls == Cardinality({k \in 1..Len(results) :
                            results[k].op = "find_path_DFS"})

\* find_path_DFS(maze, mzParam): entry of the call, best_path = []
FindPathDFS ==
    /\ pc = "ready"
    /\ NumCalls < MaxCalls
    /\ \A k \in 1..Len(results) : results[k].exhausted
    /\ c_path' = << <<X(mzParam.entry), Y(mzParam.entry), 15>> >>
    /\ best_path' = <<>>
    /\ pc' = "find_path_DFS"
    /\ UNCHANGED <<yielded, config, env,
                   mzParam, rng, rstate, prev, animated, file, ret,
                   maze, m_path, scan, removed, path_, results>>

\* one iteration; the clock test of the loop condition passes
FindPathDFSStep ==
    /\ pc = "find_path_DFS"
    /\ Len(c_path) > 0
    /\ LET r == DFSIter(maze, mzParam, c_path, best_path)
       IN  /\ maze' = r.maze
           /\ c_path' = r.c_path
           /\ best_path' = r.best_path
    /\ UNCHANGED <<yielded, config, env,
                   mzParam, rng, rstate, prev, animated, file, ret,
                   pc, m_path, scan, removed, path_, results>>

\* a loop that the clock alone can end
LoopMayExit_OnClockAlone(cp, best) == TRUE

\* the while condition can fail: not (len(c_path) > 0 and (len(best_path)
\* == 0 or time.monotonic() - start < 20)), the clock test being free
LoopMayExit(cp, best) == Len(cp) = 0 \/ Len(best) # 0

\* the loop condition fails: the stack is empty, or a path is known and
\* the clock test fails; best_path is returned
FindPathDFSReturn ==
    /\ pc = "find_path_DFS"
    /\ LoopMayExit(c_path, best_path)
    /\ results' = Append(results, [op |-> "find_path_DFS",
                                   path |-> best_path,
                                   exhausted |-> (Len(c_path) = 0)])
    /\ c_path' = <<>>
    /\ best_path' = <<>>
    /\ pc' = "ready"
    /\ UNCHANGED <<yielded, config, env,
                   mzParam, rng, rstate, prev, animated, file, ret,
                   maze, m_path, scan, removed, path_>>

----------------------------------------------------------------------------
(* clear_tmp_data *)

clear_tmp_data(mz) ==
    [r \in 1..Len(mz) |->
        [c \in 1..Len(mz[1]) |->
            IF mz[r][c] > 15 THEN And(mz[r][c], 15) ELSE mz[r][c]]]

ClearTmpData ==
    /\ pc = "ready"
    /\ NumCalls >= 1
    /\ NumCalls < MaxCalls
    /\ results[Len(results)].op = "find_path_DFS"
    /\ results[Len(results)].exhausted
    /\ maze' = clear_tmp_data(maze)
    /\ results' = Append(results, [op |-> "clear_tmp_data", path |-> <<>>,
                                   exhausted |-> TRUE])
    /\ UNCHANGED <<yielded, config, env,
                   mzParam, rng, rstate, prev, animated, file, ret,
                   pc, m_path, scan, removed, path_, c_path,
                   best_path>>

----------------------------------------------------------------------------
(* write_to_file *)

\* no file written yet
NoFile == [name |-> "", lines |-> <<>>]

\* format(v, "X") for v in 0..15
HexDigits == <<"0", "1", "2", "3", "4", "5", "6", "7",
               "8", "9", "A", "B", "C", "D", "E", "F">>

\* the characters of str(n)
RECURSIVE Decimal(_)
Decimal(n) ==
    IF n < 0 THEN <<"-">> \o Decimal(-n)
    ELSE IF n < 10 THEN <<HexDigits[n + 1]>>
    ELSE Append(Decimal(n \div 10), HexDigits[(n % 10) + 1])

\* a writer that takes the left wall from the grid boundary alone
FileMask_NoLeftNeighbour(mz, x, y) ==
    LET v0 == And(Get(mz, x, y), 3)
        v1 == IF y = 0 THEN Or(v0, 1) ELSE v0
        v2 == IF x = 0 THEN Or(v1, 8) ELSE v1
        v3 == IF y = Len(mz) - 1 THEN Or(v2, 4)
              ELSE IF And(Get(mz, x, y + 1), 1) # 0 THEN Or(v2, 4)
              ELSE v2
        v4 == IF x = Len(mz[1]) - 1 THEN Or(v3, 2) ELSE v3
    IN  v4

\* the value v written for cell (x, y)
FileMask(mz, x, y) ==
    LET v0 == And(Get(mz, x, y), 3)
        v1 == IF y = 0 THEN Or(v0, 1) ELSE v0
        v2 == IF x = 0 THEN Or(v1, 8)
              ELSE IF And(Get(mz, x - 1, y), 2) # 0 THEN Or(v1, 8)
              ELSE v1
        v3 == IF y = Len(mz) - 1 THEN Or(v2, 4)
              ELSE IF And(Get(mz, x, y + 1), 1) # 0 THEN Or(v2, 4)
              ELSE v2
        v4 == IF x = Len(mz[1]) - 1 THEN Or(v3, 2) ELSE v3
    IN  v4

\* a writer that exchanges the letters of the two vertical directions
Letter_NorthSouthSwapped(a, b) ==
    IF b[1] > a[1] THEN "E"
    ELSE IF b[1] < a[1] THEN "W"
    ELSE IF b[2] > a[2] THEN "N"
    ELSE IF b[2] < a[2] THEN "S"
    ELSE "-"

\* the character written for the step from path[i-1] = a to path[i] = b
Letter(a, b) ==
    IF b[1] > a[1] THEN "E"
    ELSE IF b[1] < a[1] THEN "W"
    ELSE IF b[2] > a[2] THEN "S"
    ELSE IF b[2] < a[2] THEN "N"
    ELSE "-"

\* the lines written for the path used, each without its closing newline
FileLinesOf(mz, p, used) ==
    [y \in 1..Len(mz) |->
        [x \in 1..Len(mz[1]) |-> HexDigits[FileMask(mz, x - 1, y - 1) + 1]]]
    \o << <<>>,
           Decimal(X(p.entry)) \o <<",">> \o Decimal(Y(p.entry)),
           Decimal(X(p.exit)) \o <<",">> \o Decimal(Y(p.exit)),
           [i \in 1..(Len(used) - 1) |-> Letter(used[i], used[i + 1])] >>

\* the lines written: the path handed in, or the one find_path_BFS finds
\* when it is empty
FileLines(mz, p, path) ==
    FileLinesOf(mz, p, IF Len(path) = 0 THEN find_path_BFS(mz, p) ELSE path)

\* write_to_file: the flag returned and the file it leaves
write_to_file(mz, p, path, file_name) ==
    LET name == IF file_name = "" THEN p.output_file ELSE file_name
    IN  IF name = "" THEN [ok |-> FALSE, file |-> NoFile]
        ELSE [ok |-> TRUE,
              file |-> [name |-> name, lines |-> FileLines(mz, p, path)]]

Adjacent(a, b) == Abs(a[1] - b[1]) + Abs(a[2] - b[2]) = 1

\* the lists of at most n steps between adjacent cells of the grid that
\* start at the cell from
RECURSIVE Walks(_, _, _, _)
Walks(w, h, from, n) ==
    IF n = 0 THEN {<<from>>}
    ELSE {<<from>>}
         \cup UNION {{<<from>> \o t : t \in Walks(w, h, c, n - 1)} :
                        c \in {d \in (0..(w - 1)) \X (0..(h - 1)) :
                                  Adjacent(from, d)}}

NumWrites == Cardinality({k \in 1..Len(results) :
                            results[k].op = "write_to_file"})

\* MazeGenerator.write_to_file(maze_, c_mz_param, path_), and the calls of
\* another caller with a path of its own and a file name
WriteToFile ==
    /\ pc = "ready"
    /\ NumWrites < MaxWrites
    /\ \E path \in {<<>>, path_}
                    \cup {t \in Walks(mzParam.width, mzParam.height,
                                      mzParam.entry, MaxWalk) : Len(t) >= 2},
          file_name \in {"", "other.txt"} :
        LET r == write_to_file(maze, mzParam, path, file_name)
        IN  /\ ret' = r.ok
            /\ file' = IF r.ok THEN r.file ELSE file
            /\ results' = Append(results, [op |-> "write_to_file",
                                           path |-> path,
                                           exhausted |-> TRUE])
    /\ UNCHANGED <<yielded, config, env,
                   mzParam, rng, rstate, prev, animated, pc, maze, m_path,
                   scan, removed, path_, c_path, best_path>>

----------------------------------------------------------------------------
(* Parameter records and specifications *)

Params(w, h, perfect, i42, pr) ==
    {p \in [width : {w}, height : {h},
            entry : (0..(w - 1)) \X (0..(h - 1)),
            exit : (0..(w - 1)) \X (0..(h - 1)),
            perfect : {perfect}, insert_42 : {i42}, seed : {<<>>},
            output_file : {"maze.txt"},
            probability_to_del_dead_end : {pr}] : params_validator(p)}

SmallSizes ==
    {s \in (1..MaxCells) \X (1..MaxCells) : s[1] * s[2] >= 2
                                            /\ s[1] * s[2] <= MaxCells}

SmallParams ==
    UNION {Params(s[1], s[2], TRUE, i42, 99) : s \in SmallSizes,
                                               i42 \in BOOLEAN}
    \cup UNION {Params(s[1], s[2], FALSE, FALSE, pr) :
                    s \in SmallSizes, pr \in {0, 50, 100}}

\* a 7 x 6 grid holds the pattern in rows 0..4 and leaves row 5 free
PatternParams ==
    {p \in Params(7, 6, TRUE, TRUE, 99) \cup Params(7, 6, FALSE, TRUE, 50) :
        /\ place_42(NewGrid(p), p.entry, p.exit).ok
        /\ p.entry \in {<<0, 5>>, <<6, 5>>}
        /\ p.exit \in {<<0, 5>>, <<3, 5>>, <<6, 5>>}}

\* an 8 x 11 grid on which check_palace accepts an exit inside the pattern
BigParams ==
    {p \in Params(8, 11, TRUE, TRUE, 99) \cup Params(8, 11, FALSE, TRUE, 50) :
        /\ p.entry = <<7, 0>>
        /\ p.exit = <<2, 7>>}

\* records the validator accepts although the entry lies outside the grid
NegParams ==
    {p \in [width : {2}, height : {2},
            entry : (-1..1) \X (-1..1),
            exit : (0..1) \X (0..1),
            perfect : BOOLEAN, insert_42 : {TRUE}, seed : {<<>>},
            output_file : {"maze.txt"},
            probability_to_del_dead_end : {50}] : params_validator(p)}

\* every grid of wall bits of at most MaxArbCells cells, and every 3 x 2 and
\* 2 x 3 grid that keeps the stored wall bits of the top row and right column
ArbSizes ==
    {s \in (1..MaxArbCells) \X (1..MaxArbCells) : s[1] * s[2] >= 2
                                                  /\ s[1] * s[2] <= MaxArbCells}

Grids(w, h) == [1..h -> [1..w -> 0..3]]

KeptBorder(w, h) ==
    {g \in Grids(w, h) :
        /\ \A c \in 1..w : And(g[1][c], 1) = 1
        /\ \A r \in 1..h : And(g[r][w], 2) = 2}

ArbInputs ==
    UNION {Grids(s[1], s[2]) \X Params(s[1], s[2], TRUE, FALSE, 99) :
              s \in ArbSizes}
    \cup UNION {KeptBorder(s[1], s[2]) \X Params(s[1], s[2], TRUE, FALSE, 99) :
              s \in {<<3, 2>>, <<2, 3>>}}

InitWith(P, R) ==
    /\ mzParam \in P
    /\ rng \in R
    /\ rstate = 0
    /\ prev = <<>>
    /\ animated = FALSE
    /\ yielded = <<>>
    /\ config = NoConfig
    /\ env = <<>>
    /\ file = NoFile
    /\ ret = FALSE
    /\ pc = "init"
    /\ maze = <<>>
    /\ m_path = <<>>
    /\ scan = 0
    /\ removed = 0
    /\ path_ = "none"
    /\ c_path = <<>>
    /\ best_path = <<>>
    /\ results = <<>>

Init == InitWith(SmallParams, {"any"})

Next ==
    \/ Generate
    \/ GenDFSStep
    \/ DoNotPrefectStep
    \/ FindPathBFS
    \/ FindPathDFS
    \/ FindPathDFSStep
    \/ FindPathDFSReturn
    \/ ClearTmpData

\* generation and both finders on the small grids, under every draw
Spec == Init /\ [][Next]_vars

\* the same program on the 7 x 6 grid with the pattern placed
InitPattern == InitWith(PatternParams, {"any"})

SpecPattern == InitPattern /\ [][Next]_vars

\* generation alone on the small grids and on the 7 x 6 grid with the
\* pattern; the while loop of gen_DFS runs on until its condition fails
InitCarve == InitWith(SmallParams \cup PatternParams, {"any"})

NextCarve ==
    \/ Generate
    \/ GenDFSStep
    \/ DoNotPrefectStep

SpecCarve == InitCarve /\ [][NextCarve]_vars /\ WF_vars(GenDFSStep)

\* generate_animated on an empty list, on the small grids and on an
\* imperfect 7 x 6 grid with the pattern, under every draw
InitAnim ==
    InitWith(SmallParams
             \cup {p \in PatternParams : /\ ~ p.perfect
                                         /\ p.entry = <<0, 5>>
                                         /\ p.exit = <<3, 5>>},
             {"any"})

NextAnim ==
    \/ StartAnimated
    \/ GenDFSAnimatedStep
    \/ DoNotPrefectAnimatedStep

SpecAnim == InitAnim /\ [][NextAnim]_vars

\* the same program on the 8 x 11 grid, the random source fixed to index 0
InitBig == InitWith(BigParams, {"low"})

SpecBig == InitBig /\ [][Next]_vars

\* generate and find_path_BFS on validated records with an outside entry
InitNeg == InitWith(NegParams, {"any"})

NextGen ==
    \/ Generate
    \/ GenDFSStep
    \/ DoNotPrefectStep
    \/ FindPathBFS

SpecNeg == InitNeg /\ [][NextGen]_vars

\* find_path_BFS applied to arbitrary grids
InitArb ==
    /\ \E in \in ArbInputs :
        /\ maze = in[1]
        /\ mzParam = in[2]
    /\ rng = "any"
    /\ rstate = 0
    /\ prev = <<>>
    /\ animated = FALSE
    /\ yielded = <<>>
    /\ config = NoConfig
    /\ env = <<>>
    /\ file = NoFile
    /\ ret = FALSE
    /\ pc = "generated"
    /\ m_path = <<>>
    /\ scan = 0
    /\ removed = 0
    /\ path_ = "none"
    /\ c_path = <<>>
    /\ best_path = <<>>
    /\ results = <<>>

NextArb == FindPathBFS

SpecArb == InitArb /\ [][NextArb]_vars

\* grids narrower, shorter, equal to and larger than the 7 x 5 bitmap
PlaceSizes ==
    {<<6, 5>>, <<7, 4>>, <<7, 5>>, <<7, 6>>, <<8, 6>>, <<9, 7>>, <<8, 11>>}

PlaceParams == UNION {Params(s[1], s[2], TRUE, TRUE, 99) : s \in PlaceSizes}

\* place_42 on the grid generate hands it, for every entry and exit
InitPlace ==
    /\ mzParam \in PlaceParams
    /\ maze = NewGrid(mzParam)
    /\ pc = "place_42"
    /\ rng = "any"
    /\ rstate = 0
    /\ prev = <<>>
    /\ animated = FALSE
    /\ yielded = <<>>
    /\ config = NoConfig
    /\ env = <<>>
    /\ file = NoFile
    /\ ret = FALSE
    /\ m_path = <<>>
    /\ scan = 0
    /\ removed = 0
    /\ path_ = "none"
    /\ c_path = <<>>
    /\ best_path = <<>>
    /\ results = <<>>

NextPlace == Place42

SpecPlace == InitPlace /\ [][NextPlace]_vars

\* records with and without an output file name on grids of at most
\* MaxWriteCells cells
WriteParams ==
    {[p EXCEPT !.output_file = f] :
        p \in UNION {Params(s[1], s[2], TRUE, FALSE, 99)
                       \cup Params(s[1], s[2], FALSE, FALSE, 50) :
                     s \in {t \in SmallSizes : t[1] * t[2] <= MaxWriteCells}},
        f \in {"", "maze.txt"}}

\* generation, find_path_BFS and write_to_file
InitWrite == InitWith(WriteParams, {"any"})

NextWrite ==
    \/ Generate
    \/ GenDFSStep
    \/ DoNotPrefectStep
    \/ FindPathBFS
    \/ WriteToFile

SpecWrite == InitWrite /\ [][NextWrite]_vars

\* records with a seed (<<>> is None) on the 2 x 2 and 3 x 2 grids
RegenParams ==
    {[p EXCEPT !.seed = sd] :
        p \in Params(2, 2, TRUE, FALSE, 99) \cup Params(2, 2, FALSE, FALSE, 50)
               \cup Params(3, 2, TRUE, FALSE, 99)
               \cup Params(3, 2, FALSE, FALSE, 50),
        sd \in {<<>>, <<1>>, <<6>>}}

\* generator states the program may start in
StartStates == {0, 11}

\* repeated generation, plain and animated, with a deterministic generator
InitRegen ==
    /\ mzParam \in RegenParams
    /\ rng = "stream"
    /\ rstate \in StartStates
    /\ prev = <<>>
    /\ animated = FALSE
    /\ yielded = <<>>
    /\ config = NoConfig
    /\ env = <<>>
    /\ file = NoFile
    /\ ret = FALSE
    /\ pc = "init"
    /\ maze = <<>>
    /\ m_path = <<>>
    /\ scan = 0
    /\ removed = 0
    /\ path_ = "none"
    /\ c_path = <<>>
    /\ best_path = <<>>
    /\ results = <<>>

NextRegen ==
    \/ Generate
    \/ GenDFSStep
    \/ DoNotPrefectStep
    \/ Regenerate
    \/ GenerateAnimated
    \/ GenDFSAnimatedStep
    \/ DoNotPrefectAnimatedStep
    \/ RandInt

SpecRegen == InitRegen /\ [][NextRegen]_vars

----------------------------------------------------------------------------
(* The open-connection graph of a grid, read from the stored wall bits *)

Width(mz) == Len(mz[1])
Height(mz) == Len(mz)

GridCells(mz) == (0..(Width(mz) - 1)) \X (0..(Height(mz) - 1))

At(mz, c) == mz[c[2] + 1][c[1] + 1]

TopBit(v) == v % 2
RightBit(v) == (v \div 2) % 2
PatternCell(v) == v % 16 = 15
VisitedCell(v) == (v \div 16) % 2 = 1

\* the pairs <<a, b>> of adjacent cells, b right of or below a, whose
\* separating wall bit is cleared
OpenEdges(mz) ==
    {<<c, <<c[1] + 1, c[2]>>>> :
        c \in {d \in GridCells(mz) : d[1] < Width(mz) - 1
                                     /\ RightBit(At(mz, d)) = 0}}
    \cup
    {<<<<c[1], c[2] - 1>>, c>> :
        c \in {d \in GridCells(mz) : d[2] > 0 /\ TopBit(At(mz, d)) = 0}}

Linked(mz, a, b) == <<a, b>> \in OpenEdges(mz) \/ <<b, a>> \in OpenEdges(mz)

RECURSIVE Grow(_, _)
Grow(edges, S) ==
    LET T == S \cup {e[2] : e \in {f \in edges : f[1] \in S}}
               \cup {e[1] : e \in {f \in edges : f[2] \in S}}
    IN  IF T = S THEN S ELSE Grow(edges, T)

\* the cells joined to cell from through open connections
Reach(mz, from) == Grow(OpenEdges(mz), {from})

NoPattern(mz) == \A c \in GridCells(mz) : ~ PatternCell(At(mz, c))

----------------------------------------------------------------------------
(* C1: for width >= 2, height >= 2 and a valid entry/exit, generate with
   perfect = true and no pattern returns a grid whose open connections form
   a spanning tree over all cells: the graph is connected and has exactly
   width * height - 1 open connections. *)
C1_PerfectIsSpanningTree ==
    (/\ pc = "generated"
     /\ mzParam.perfect
     /\ mzParam.width >= 2
     /\ mzParam.height >= 2
     /\ NoPattern(maze))
    => /\ Reach(maze, <<0, 0>>) = GridCells(maze)
       /\ Cardinality(OpenEdges(maze)) = mzParam.width * mzParam.height - 1

C1_Witness ==
    /\ pc = "generated"
    /\ mzParam.perfect
    /\ ~ mzParam.insert_42
    /\ mzParam.width = 3
    /\ mzParam.height = 2
    /\ Cardinality(OpenEdges(maze)) = 5
    /\ Reach(maze, <<2, 1>>) = GridCells(maze)

----------------------------------------------------------------------------
(* Paths *)

\* a and b are grid-adjacent cells with no wall between them
Passage(mz, a, b) ==
    /\ a \in GridCells(mz)
    /\ b \in GridCells(mz)
    /\ \/ (b = <<a[1] + 1, a[2]>> /\ RightBit(At(mz, a)) = 0)
       \/ (a = <<b[1] + 1, b[2]>> /\ RightBit(At(mz, b)) = 0)
       \/ (b = <<a[1], a[2] + 1>> /\ TopBit(At(mz, b)) = 0)
       \/ (a = <<b[1], b[2] + 1>> /\ TopBit(At(mz, a)) = 0)

ValidPath(mz, p, path) ==
    /\ Len(path) >= 1
    /\ path[1] = p.entry
    /\ path[Len(path)] = p.exit
    /\ \A k \in 1..(Len(path) - 1) :
        /\ path[k] # path[k + 1]
        /\ Passage(mz, path[k], path[k + 1])

DFSResults == {k \in 1..Len(results) : results[k].op = "find_path_DFS"}

(* C2: on a generated grid every non-empty path returned by find_path_BFS
   or by find_path_DFS with an empty bestSoFar starts at the entry, ends at
   the exit, and each consecutive pair of points is a pair of distinct
   adjacent cells with no wall between them. *)
C2_ReturnedPathsAreValid ==
    pc = "ready"
    => /\ (path_ # <<>> => ValidPath(maze, mzParam, path_))
       /\ \A k \in DFSResults :
            results[k].path # <<>>
            => ValidPath(maze, mzParam, results[k].path)

C2_Witness ==
    /\ pc = "ready"
    /\ ~ mzParam.perfect
    /\ removed >= 1
    /\ Len(results) >= 1
    /\ Len(results[1].path) >= 5
    /\ Len(path_) >= 5
    /\ ValidPath(maze, mzParam, results[1].path)

----------------------------------------------------------------------------
\* the least number of steps from the cells of S to cell target over open
\* connections, counted from d; -1 when target cannot be reached
RECURSIVE StepsFrom(_, _, _, _)
StepsFrom(edges, S, target, d) ==
    IF target \in S THEN d
    ELSE LET T == S \cup {e[2] : e \in {f \in edges : f[1] \in S}}
                    \cup {e[1] : e \in {f \in edges : f[2] \in S}}
         IN  IF T = S THEN -1 ELSE StepsFrom(edges, T, target, d + 1)

Distance(mz, a, b) == StepsFrom(OpenEdges(mz), {a}, b, 0)

(* C3: for any grid and any entry/exit inside it, find_path_BFS returns a
   wall-respecting entry-to-exit path with the minimum possible number of
   steps, and it returns the empty sequence exactly when no such path
   exists. *)
C3_BFSReturnsShortest ==
    pc = "ready"
    => LET d == Distance(maze, mzParam.entry, mzParam.exit)
       IN  IF d = -1
           THEN path_ = <<>>
           ELSE /\ ValidPath(maze, mzParam, path_)
                /\ Len(path_) = d + 1

\* the exit is next to the entry, a wall stands between them, and the path
\* found goes round it
C3_Witness ==
    /\ pc = "ready"
    /\ Abs(X(mzParam.entry) - X(mzParam.exit))
       + Abs(Y(mzParam.entry) - Y(mzParam.exit)) = 1
    /\ Len(path_) = 4
    /\ ValidPath(maze, mzParam, path_)

----------------------------------------------------------------------------
(* C4: after generate completes for any parameters that passed validation,
   the exit is reachable from the entry through open walls: find_path_BFS
   on the returned grid never returns the empty sequence. *)
C4_ExitAlwaysReachable ==
    pc = "ready" => path_ # <<>>

----------------------------------------------------------------------------
(* C5: on any grid returned by generate, whenever find_path_BFS returns a
   non-empty path, find_path_DFS called with an empty bestSoFar on that grid
   also returns a non-empty valid path between the same entry and exit. *)
C5_DFSFindsWhatBFSFinds ==
    (/\ pc = "ready"
     /\ path_ # <<>>
     /\ Len(results) >= 1)
    => /\ results[1].path # <<>>
       /\ ValidPath(maze, mzParam, results[1].path)

----------------------------------------------------------------------------
(* C6: when find_path_DFS returns (by stack exhaustion or by timeout), the
   depth stamps are cleared again: bits 8 and above of every cell are zero,
   as they were before the call. *)
C6_StampsClearedOnReturn ==
    (/\ pc = "ready"
     /\ Len(results) >= 1
     /\ results[Len(results)].op = "find_path_DFS")
    => \A c \in GridCells(maze) : StampOf(At(maze, c)) = 0

(* C7: two find_path_DFS calls in succession on the same generated grid,
   with an empty bestSoFar and no clear_tmp_data in between, both run to
   stack exhaustion, return the same path. *)
C7_SecondSearchSamePath ==
    \A k \in 1..(Len(results) - 1) :
        (/\ results[k].op = "find_path_DFS"
         /\ results[k + 1].op = "find_path_DFS"
         /\ results[k].exhausted
         /\ results[k + 1].exhausted)
        => results[k + 1].path = results[k].path

----------------------------------------------------------------------------
\* a step of find_path_BFS or of find_path_DFS (call, iteration or return)
FinderStep ==
    \/ pc = "generated"
    \/ pc = "find_path_DFS"
    \/ pc' = "find_path_DFS"

\* bits 0-7 of every cell are the same before and after the step
LowByteKept ==
    /\ Len(maze') = Len(maze)
    /\ \A r \in 1..Len(maze) :
        /\ Len(maze'[r]) = Len(maze[r])
        /\ \A c \in 1..Len(maze[r]) : maze'[r][c] % 256 = maze[r][c] % 256

(* C8: neither path finder changes a carved wall or a marker:
   find_path_BFS writes no cell at all, and every step of find_path_DFS
   leaves bits 0-7 of every cell as they were. *)
C8_FindersKeepLowByte ==
    [][FinderStep => (LowByteKept /\ (pc = "generated" => maze' = maze))]_vars

\* a search has stamped a visited cell and returned a path
C8_Witness ==
    /\ pc = "ready"
    /\ Len(results) >= 1
    /\ results[1].path # <<>>
    /\ \E c \in GridCells(maze) :
        /\ StampOf(At(maze, c)) >= 2
        /\ VisitedCell(At(maze, c))
        /\ At(maze, c) % 16 = 0

----------------------------------------------------------------------------
\* a step of the injector
InjectorStep == pc = "do_not_prefect"

\* a stored wall bit the step clears is not a boundary wall and has no
\* pattern cell on either side
ClearedWallsLegal ==
    \A r \in 1..Len(maze) : \A c \in 1..Len(maze[r]) :
        /\ (TopBit(maze[r][c]) = 1 /\ TopBit(maze'[r][c]) = 0)
           => /\ r > 1
              /\ ~ PatternCell(maze[r][c])
              /\ ~ PatternCell(maze[r - 1][c])
        /\ (RightBit(maze[r][c]) = 1 /\ RightBit(maze'[r][c]) = 0)
           => /\ c < Len(maze[r])
              /\ ~ PatternCell(maze[r][c])
              /\ ~ PatternCell(maze[r][c + 1])

(* C9: for every dead-end probability and every sequence of random draws,
   the injector never removes a wall on the grid boundary and never clears
   a wall that has a pattern cell on either side. *)
C9_InjectorKeepsBorderAndPattern ==
    [][InjectorStep => ClearedWallsLegal]_vars

\* the injector has removed walls on a grid that holds the pattern
C9_Witness ==
    /\ pc = "generated"
    /\ ~ mzParam.perfect
    /\ ~ NoPattern(maze)
    /\ removed >= 2

----------------------------------------------------------------------------
VisitedCells(mz) == {c \in GridCells(mz) : VisitedCell(At(mz, c))}

\* the step sets no wall bit: every wall bit is kept or cleared, and every
\* open connection stays open
OnlyClears ==
    /\ \A r \in 1..Len(maze) : \A c \in 1..Len(maze[r]) :
        /\ TopBit(maze'[r][c]) <= TopBit(maze[r][c])
        /\ RightBit(maze'[r][c]) <= RightBit(maze[r][c])
    /\ OpenEdges(maze) \subseteq OpenEdges(maze')

\* during and after injection the carved cells stay connected and the open
\* connections number (carved cells - 1) + removals; without a pattern the
\* carved cells are all the cells
CountsAddUp ==
    pc \in {"do_not_prefect", "generated"}
    => /\ Reach(maze, mzParam.exit) = VisitedCells(maze)
       /\ Cardinality(OpenEdges(maze))
            = Cardinality(VisitedCells(maze)) - 1 + removed
       /\ NoPattern(maze) => VisitedCells(maze) = GridCells(maze)

(* C10: injection only clears wall bits and never sets one, so cells
   connected before stay connected; on a perfect maze each removed wall adds
   one open connection: the count is cells - 1 plus the number of
   removals. *)
C10_InjectionOnlyAddsConnections ==
    [](CountsAddUp) /\ [][InjectorStep => OnlyClears]_vars

C10_Witness ==
    /\ pc = "generated"
    /\ ~ mzParam.perfect
    /\ removed >= 2
    /\ mzParam.width * mzParam.height = 6
    /\ Cardinality(OpenEdges(maze)) = 5 + removed

----------------------------------------------------------------------------
(* The pattern footprint, read from the bitmap and the grid size *)

\* the cells of the centred rectangle the bitmap covers
FootBox(mz) ==
    {c \in GridCells(mz) :
        /\ c[1] >= (Width(mz) - 7) \div 2
        /\ c[1] < (Width(mz) - 7) \div 2 + 7
        /\ c[2] >= (Height(mz) - 5) \div 2
        /\ c[2] < (Height(mz) - 5) \div 2 + 5}

\* the cells of the rectangle where the bitmap holds 15
Footprint(mz) ==
    {c \in FootBox(mz) :
        p_42[c[2] - (Height(mz) - 5) \div 2 + 1]
            [c[1] - (Width(mz) - 7) \div 2 + 1] = 15}

\* generate asked for the pattern and place_42 accepted it
PatternPlaced(p) ==
    p.insert_42 /\ place_42(NewGrid(p), p.entry, p.exit).ok

----------------------------------------------------------------------------------------------------------------------------------------
\* the grid after the call is the grid before it with 15 in the cells where
\* the bitmap holds 15
StampedExactly ==
    /\ Len(maze') = Len(maze)
    /\ \A r \in 1..Len(maze) : Len(maze'[r]) = Len(maze[r])
    /\ \A c \in GridCells(maze) :
        At(maze', c) = IF c \in Footprint(maze) THEN 15 ELSE At(maze, c)

(* C11: place_42 is all-or-nothing: for every grid size and entry/exit it
   either returns false with every cell unchanged, or returns true having
   set to 0xF exactly the cells at the centred offset where the bitmap holds
   15, every other cell unchanged. *)
C11_PlaceAllOrNothing ==
    [][pc = "place_42"
       => \/ (ret' = FALSE /\ maze' = maze)
          \/ (ret' = TRUE /\ StampedExactly)]_vars

\* the pattern is placed at offset (1, 1) of a 9 x 7 grid: 18 cells hold 15
\* and the markers are still there
C11_Witness ==
    /\ pc = "placed"
    /\ ret = TRUE
    /\ Width(maze) = 9
    /\ Cardinality({c \in GridCells(maze) : At(maze, c) = 15}) = 18
    /\ At(maze, <<1, 1>>) = 15
    /\ At(maze, <<2, 1>>) = 3
    /\ At(maze, mzParam.entry) = 7
    /\ At(maze, mzParam.exit) = 11

----------------------------------------------------------------------------
(* C12: whenever place_42 returns true, neither the entry cell nor the exit
   cell lies inside the centred footprint rectangle, so neither marker is
   overwritten by 0xF. *)
C12_MarkersOutsideFootprint ==
    (pc = "placed" /\ ret = TRUE)
    => /\ mzParam.entry \notin FootBox(maze)
       /\ mzParam.exit \notin FootBox(maze)
       /\ At(maze, mzParam.entry) = 7
       /\ At(maze, mzParam.exit) = 11

----------------
DataModelInvariant(p) ==
    /\ p.width >= 1
    /\ p.height >= 1
    /\ p.entry # p.exit
    /\ 0 <= X(p.entry) /\ X(p.entry) < p.width
    /\ 0 <= Y(p.entry) /\ Y(p.entry) < p.height
    /\ 0 <= X(p.exit) /\ X(p.exit) < p.width
    /\ 0 <= Y(p.exit) /\ Y(p.exit) < p.height

(* C13: every parameter record accepted by the validation satisfies the
   data-model invariant (width >= 1, height >= 1, entry # exit, entry and
   exit inside the grid), so a grid is built only for such records. *)
C13_AcceptedParamsInRange ==
    maze # <<>> => DataModelInvariant(mzParam)

----------------------------------------------------------------------------
\* the cells that are not pattern cells
FreeCells(mz) == {c \in GridCells(mz) : ~ PatternCell(At(mz, c))}

\* gen_DFS has just returned
CarverDone == pc = AfterCarve(mzParam) /\ scan = 0 /\ removed = 0

(* C17: when the carver terminates on a grid in which the pattern was
   placed, every non-pattern cell has been visited and the open connections
   form a spanning tree over all non-pattern cells. *)
C17_CarverSpansNonPatternCells ==
    (CarverDone /\ PatternPlaced(mzParam))
    => /\ \A c \in FreeCells(maze) : VisitedCell(At(maze, c))
       /\ Reach(maze, mzParam.exit) = FreeCells(maze)
       /\ Cardinality(OpenEdges(maze)) = Cardinality(FreeCells(maze)) - 1

----------------------------------------------------------------------------
\* the four effective walls of cell c: stored bits, the neighbours' bits and
\* the grid boundary
AllWallsPresent(mz, c) ==
    /\ (c[2] = 0 \/ TopBit(At(mz, c)) = 1)
    /\ (c[1] = Width(mz) - 1 \/ RightBit(At(mz, c)) = 1)
    /\ (c[2] = Height(mz) - 1 \/ TopBit(At(mz, <<c[1], c[2] + 1>>)) = 1)
    /\ (c[1] = 0 \/ RightBit(At(mz, <<c[1] - 1, c[2]>>)) = 1)

OnPath(path, c) == \E k \in 1..Len(path) : <<path[k][1], path[k][2]>> = c

(* C18: after generate with a placed pattern, every cell stamped by
   place_42 still has 0xF in its low four bits and all four effective walls,
   was never visited by the carver, and occurs in no path returned by
   find_path_BFS or find_path_DFS. *)
C18_PatternCellsStayImpassable ==
    PatternPlaced(mzParam)
    => /\ pc \in {"generated", "ready"}
          => \A c \in Footprint(maze) :
                /\ At(maze, c) % 16 = 15
                /\ AllWallsPresent(maze, c)
                /\ ~ VisitedCell(At(maze, c))
       /\ pc = "ready"
          => \A c \in Footprint(maze) :
                /\ ~ OnPath(path_, c)
                /\ \A k \in DFSResults : ~ OnPath(results[k].path, c)

----------------------------------------------------------------------------
\* the grid the generation before the current one returned
LastGrid == prev[Len(prev)]

(* C14: generate is deterministic for a fixed seed: two calls with the same
   parameters and the same non-null seed return grids equal in every cell,
   whatever draws or generations happened before each call. *)
C14_SameSeedSameGrid ==
    (pc = "generated" /\ ~ animated /\ mzParam.seed # <<>>)
    => \A k \in 1..Len(prev) :
            ~ prev[k].animated => prev[k].maze = maze

\* a second imperfect generation with removals has returned the grid of the
\* first, after draws that left the generator in another state
C14_Witness ==
    /\ pc = "generated"
    /\ ~ animated
    /\ mzParam.seed # <<>>
    /\ ~ mzParam.perfect
    /\ removed >= 1
    /\ Len(prev) = 1
    /\ ~ prev[1].animated
    /\ prev[1].maze = maze

----------------------------------------------------------------------------
(* C15: driving generate_animated to exhaustion yields the same final grid
   as generate for the same parameters and the same sequence of random
   draws (the same seed), after carving and after injection. *)
C15_AnimatedSameAsPlain ==
    (/\ pc = "generated"
     /\ animated
     /\ mzParam.seed # <<>>
     /\ Len(prev) >= 1
     /\ ~ LastGrid.animated)
    => maze = LastGrid.maze

----------------------------------------------------------------------------
\* a generation starts on a grid built from the parameters alone
StartsFresh ==
    (pc = "generated" /\ pc' = "gen_DFS")
    => maze' = Put(Placed(mzParam), X(mzParam.exit), Y(mzParam.exit),
                   Or(Get(Placed(mzParam), X(mzParam.exit), Y(mzParam.exit)),
                      16))

RightShape ==
    pc = "generated"
    => /\ Len(maze) = mzParam.height
       /\ \A r \in 1..Len(maze) : Len(maze[r]) = mzParam.width

(* C16: re-generation replaces the grid wholesale: after generate, or
   generate_animated driven to exhaustion on whatever list it is handed, the
   grid has exactly height rows of width cells and keeps no row or cell of
   the previous grid. *)
C16_GridReplacedWholesale ==
    [](RightShape) /\ [][StartsFresh]_vars

----------------------------------------------------------------------------
(* Reading a written file back *)

\* the value of a hexadecimal digit character
HexVal ==
    [ch \in {"0", "1", "2", "3", "4", "5", "6", "7",
             "8", "9", "A", "B", "C", "D", "E", "F"} |->
        CASE ch = "0" -> 0 [] ch = "1" -> 1 [] ch = "2" -> 2 [] ch = "3" -> 3
          [] ch = "4" -> 4 [] ch = "5" -> 5 [] ch = "6" -> 6 [] ch = "7" -> 7
          [] ch = "8" -> 8 [] ch = "9" -> 9 [] ch = "A" -> 10
          [] ch = "B" -> 11 [] ch = "C" -> 12 [] ch = "D" -> 13
          [] ch = "E" -> 14 [] ch = "F" -> 15]

\* the four effective walls of cell c as a mask: bit 0 top, bit 1 right,
\* bit 2 bottom, bit 3 left
EffectiveMask(mz, c) ==
    (IF c[2] = 0 \/ TopBit(At(mz, c)) = 1 THEN 1 ELSE 0)
    + (IF c[1] = Width(mz) - 1 \/ RightBit(At(mz, c)) = 1 THEN 2 ELSE 0)
    + (IF c[2] = Height(mz) - 1 \/ TopBit(At(mz, <<c[1], c[2] + 1>>)) = 1
       THEN 4 ELSE 0)
    + (IF c[1] = 0 \/ RightBit(At(mz, <<c[1] - 1, c[2]>>)) = 1 THEN 8 ELSE 0)

\* the last finished call is a write_to_file that wrote the file
Written ==
    /\ pc = "ready"
    /\ Len(results) >= 1
    /\ results[Len(results)].op = "write_to_file"
    /\ ret = TRUE

\* the path that call had to write: the one handed in, or the BFS path
WrittenPath ==
    IF results[Len(results)].path = <<>> THEN path_
    ELSE results[Len(results)].path

\* a line "x,y" of two one-digit numbers
PointLine(line, pt) ==
    /\ Len(line) = 3
    /\ line[2] = ","
    /\ line[1] \in DOMAIN HexVal /\ HexVal[line[1]] = pt[1]
    /\ line[3] \in DOMAIN HexVal /\ HexVal[line[3]] = pt[2]

(* C19: write_to_file with a configured output name writes height lines of
   width hexadecimal digits, the digit of cell (x, y) being its effective
   wall mask, then one blank line, then 'entryX,entryY', then
   'exitX,exitY', then one line of len(path) - 1 characters from N/S/E/W,
   using the BFS path when no path is supplied. *)
C19_FileFormat ==
    Written
    => LET L == file.lines
           h == Height(maze)
           w == Width(maze)
       IN  /\ Len(L) = h + 4
           /\ \A y \in 1..h :
                /\ Len(L[y]) = w
                /\ \A x \in 1..w :
                    /\ L[y][x] \in DOMAIN HexVal
                    /\ HexVal[L[y][x]] = EffectiveMask(maze, <<x - 1, y - 1>>)
           /\ L[h + 1] = <<>>
           /\ PointLine(L[h + 2], mzParam.entry)
           /\ PointLine(L[h + 3], mzParam.exit)
           /\ Len(L[h + 4]) = Len(WrittenPath) - 1
           /\ \A i \in 1..Len(L[h + 4]) : L[h + 4][i] \in {"N", "S", "E", "W"}

\* a 2 x 2 grid written with no path supplied: the direction line has one
\* letter per step of the BFS path, and a cell with an open left wall is
\* written
C19_Witness ==
    /\ Written
    /\ Width(maze) = 2
    /\ Height(maze) = 2
    /\ results[Len(results)].path = <<>>
    /\ Len(file.lines) = 6
    /\ Len(file.lines[6]) = Len(path_) - 1
    /\ \E y \in 1..2 : HexVal[file.lines[y][2]] < 8

----------------------------------------------------------------------------
\* N = y-1, S = y+1, E = x+1, W = x-1
Move(pt, ch) ==
    CASE ch = "N" -> <<pt[1], pt[2] - 1>>
      [] ch = "S" -> <<pt[1], pt[2] + 1>>
      [] ch = "E" -> <<pt[1] + 1, pt[2]>>
      [] ch = "W" -> <<pt[1] - 1, pt[2]>>
      [] OTHER -> pt

\* the points a direction line visits from the point from
RECURSIVE Decode(_, _)
Decode(from, dirs) ==
    IF dirs = <<>> THEN <<from>>
    ELSE <<from>> \o Decode(Move(from, Head(dirs)), Tail(dirs))

(* C20: for every path whose consecutive points are grid-adjacent, decoding
   the direction line written by write_to_file from the entry reproduces
   the same sequence of coordinates (ending at the exit when the path
   does). *)
C20_DirectionsRoundTrip ==
    Written
    => Decode(mzParam.entry, file.lines[Height(maze) + 4]) = XY(WrittenPath)

\* a path of three steps that goes north and west has been written and
\* read back
C20_Witness ==
    /\ Written
    /\ Len(WrittenPath) = 4
    /\ \E i \in 1..3 : file.lines[Height(maze) + 4][i] = "N"
    /\ \E i \in 1..3 : file.lines[Height(maze) + 4][i] = "W"
    /\ Decode(mzParam.entry, file.lines[Height(maze) + 4]) = XY(WrittenPath)

----------------------------------------------------------------------------
\* the stored wall bits that are set: <<cell, 1>> top, <<cell, 2>> right
WallBits(mz) ==
    {cb \in GridCells(mz) \X {1, 2} : And(At(mz, cb[1]), cb[2]) # 0}

\* the stored bit that holds the wall between the adjacent cells c and n
WallBetween(c, n) ==
    IF n[2] = c[2] - 1 THEN <<c, 1>>
    ELSE IF n[1] = c[1] + 1 THEN <<c, 2>>
    ELSE IF n[2] = c[2] + 1 THEN <<n, 1>>
    ELSE <<n, 2>>

\* the in-bounds neighbours of c that are unvisited and not pattern cells
Candidates(mz, c) ==
    {n \in GridCells(mz) : /\ Adjacent(c, n)
                           /\ ~ VisitedCell(At(mz, n))
                           /\ ~ PatternCell(At(mz, n))}

\* the cell of the top stack frame
TopCell == <<m_path[Len(m_path)][1], m_path[Len(m_path)][2]>>

\* this step pops the top frame and touches nothing else
OnlyPops ==
    /\ maze' = maze
    /\ m_path' = SubSeq(m_path, 1, Len(m_path) - 1)

\* this step clears the one wall bit between the top cell and n, marks n
\* visited, pushes a frame for n and changes nothing else in the grid
CarvesInto(n) ==
    /\ WallBetween(TopCell, n) \in WallBits(maze)
    /\ WallBits(maze') = WallBits(maze) \ {WallBetween(TopCell, n)}
    /\ VisitedCells(maze') = VisitedCells(maze) \cup {n}
    /\ \A d \in GridCells(maze) :
          /\ And(At(maze', d), 12) = And(At(maze, d), 12)
          /\ At(maze', d) \div 32 = At(maze, d) \div 32
    /\ Len(m_path') = Len(m_path) + 1
    /\ m_path'[Len(m_path')] = <<n[1], n[2], 15>>
    /\ \A k \in 1..Len(m_path) :
          <<m_path'[k][1], m_path'[k][2]>> = <<m_path[k][1], m_path[k][2]>>

\* the walls cleared so far join visited cells only, none of them is a
\* boundary wall, and there is one less of them than there are visited cells
CarvedTree(mz) ==
    /\ \A c \in GridCells(mz) :
          /\ c[2] = 0 => TopBit(At(mz, c)) = 1
          /\ c[1] = Width(mz) - 1 => RightBit(At(mz, c)) = 1
    /\ \A e \in OpenEdges(mz) :
          VisitedCell(At(mz, e[1])) /\ VisitedCell(At(mz, e[2]))
    /\ 2 * Cardinality(GridCells(mz)) - Cardinality(WallBits(mz))
          = Cardinality(VisitedCells(mz)) - 1
    /\ Cardinality(OpenEdges(mz)) = Cardinality(VisitedCells(mz)) - 1

(* C21: every carve step of gen_DFS clears exactly one wall bit, the wall
   between the cell of the top stack frame and an in-bounds neighbour that
   was unvisited and is not a pattern cell, marks that neighbour visited and
   pushes a frame for it; a step that finds no such neighbour only pops.
   Hence at every step no wall between two already-visited cells has been
   cleared, no boundary wall has been cleared, and the number of cleared
   walls equals the number of visited cells minus one. *)
C21_CarveStepClearsOneWall ==
    [][/\ pc = "gen_DFS"
          => IF Candidates(maze, TopCell) = {}
             THEN OnlyPops
             ELSE \E n \in Candidates(maze, TopCell) : CarvesInto(n)
       /\ pc' = "gen_DFS" => CarvedTree(maze')]_vars

\* the carver is at work on a grid that holds the pattern: it has carved
\* at least three walls and its top frame sits next to a pattern cell with
\* nowhere left to go
C21_Witness ==
    /\ pc = "gen_DFS"
    /\ Len(m_path) > 0
    /\ Cardinality(VisitedCells(maze)) >= 4
    /\ Cardinality(OpenEdges(maze)) = Cardinality(VisitedCells(maze)) - 1
    /\ \E n \in GridCells(maze) : Adjacent(TopCell, n) /\ PatternCell(At(maze, n))
    /\ Candidates(maze, TopCell) = {}

----------------------------------------------------------------------------
\* the pairs of adjacent cells, the second right of or below the first,
\* neither of which is a pattern cell (the exit counts as free)
FreeEdges(mz, p) ==
    LET free == FreeCells(mz) \cup {<<PyIdx(X(p.exit), Width(mz)),
                                      PyIdx(Y(p.exit), Height(mz))>>}
    IN  {e \in free \X free :
            \/ e[2] = <<e[1][1] + 1, e[1][2]>>
            \/ e[2] = <<e[1][1], e[1][2] + 1>>}

\* the cells reachable from the exit through non-pattern cells
ReachFromExit(mz, p) ==
    Grow(FreeEdges(mz, p), {<<PyIdx(X(p.exit), Width(mz)),
                              PyIdx(Y(p.exit), Height(mz))>>})

\* the cells of the frames of the stack
StackCells == {<<m_path[k][1], m_path[k][2]>> : k \in 1..Len(m_path)}

(* C22: gen_DFS always terminates: for every grid size, pattern placement
   and sequence of random choices the frame stack eventually becomes empty;
   every cell is pushed at most once (a pushed cell was unvisited, is marked
   visited by the push and no visited flag is ever cleared, so the stack
   never holds a cell twice); and the number of carve steps, each of which
   clears one wall, equals the number of cells reachable from the exit
   through non-pattern cells minus one. *)
C22_CarverTerminates ==
    /\ (pc = "gen_DFS") ~> (pc # "gen_DFS" /\ m_path = <<>>)
    /\ [][pc = "gen_DFS"
            => /\ VisitedCells(maze) \subseteq VisitedCells(maze')
               /\ StackCells \subseteq VisitedCells(maze)
               /\ Cardinality(StackCells) = Len(m_path)
               /\ Len(m_path') > Len(m_path)
                    => <<m_path'[Len(m_path')][1], m_path'[Len(m_path')][2]>>
                          \notin VisitedCells(maze)]_vars
    /\ [](CarverDone
            => /\ Cardinality(OpenEdges(maze))
                    = Cardinality(ReachFromExit(maze, mzParam)) - 1
               /\ 2 * Cardinality(GridCells(maze)) - Cardinality(WallBits(maze))
                    = Cardinality(ReachFromExit(maze, mzParam)) - 1)

\* gen_DFS has returned on a 7 x 6 grid that holds the pattern: the stack is
\* empty, the cells behind the pattern were never reached and every
\* reachable cell was carved into once
C22_Witness ==
    /\ CarverDone
    /\ m_path = <<>>
    /\ Width(maze) = 7
    /\ \E c \in GridCells(maze) : PatternCell(At(maze, c))
    /\ ReachFromExit(maze, mzParam) # FreeCells(maze)
    /\ Cardinality(OpenEdges(maze))
          = Cardinality(ReachFromExit(maze, mzParam)) - 1

----------------------------------------------------------------------------
\* the cell the injector scans in this step (row-major order)
ScannedCell == <<scan % Width(maze), scan \div Width(maze)>>

\* the cells with exactly three of their four effective walls
DeadEnds(mz) ==
    {c \in GridCells(mz) : Cardinality(Bits(EffectiveMask(mz, c))) = 3}

(* C24: the injector makes a single row-major pass (each step scans the
   next cell in row-major order and the pass ends after the last cell),
   skips pattern, entry and exit cells, and clears a wall only for a cell
   that has exactly three of its four effective walls at the moment it is
   scanned; it clears at most one wall per scanned cell and that wall is
   one of the scanned cell's own four sides.  The number of walls removed
   plus the number of dead ends left never grows, so the number of walls
   removed never exceeds the number of dead ends before the pass. *)
C24_InjectorOnlyOpensDeadEnds ==
    [][pc = "do_not_prefect"
         => LET gone == WallBits(maze) \ WallBits(maze')
            IN  /\ scan' = scan + 1
                /\ scan < Cardinality(GridCells(maze))
                /\ (pc' # "do_not_prefect")
                      <=> (scan' = Cardinality(GridCells(maze)))
                /\ WallBits(maze') \subseteq WallBits(maze)
                /\ Cardinality(gone) <= 1
                /\ removed' = removed + Cardinality(gone)
                /\ gone # {}
                     => /\ And(At(maze, ScannedCell), 12) = 0
                        /\ ScannedCell \in DeadEnds(maze)
                        /\ \E n \in GridCells(maze) :
                              /\ Adjacent(ScannedCell, n)
                              /\ gone = {WallBetween(ScannedCell, n)}
                /\ removed' + Cardinality(DeadEnds(maze'))
                      <= removed + Cardinality(DeadEnds(maze))]_vars

\* the pass over a 7 x 6 grid that holds the pattern has removed a wall and
\* has scanned pattern cells, with a dead end still ahead of it
C24_Witness ==
    /\ pc = "do_not_prefect"
    /\ removed >= 1
    /\ \E c \in GridCells(maze) :
          PatternCell(At(maze, c)) /\ c[2] * Width(maze) + c[1] < scan
    /\ \E c \in DeadEnds(maze) :
          /\ c[2] * Width(maze) + c[1] >= scan
          /\ And(At(maze, c), 12) = 0

----------------------------------------------------------------------------
(* find_path_DFS with a path handed in as best_path *)

\* the wall-respecting paths without a repeated cell that continue path to
\* the cell to
RECURSIVE PathsTo(_, _, _)
PathsTo(mz, path, to) ==
    IF path[Len(path)] = to THEN {path}
    ELSE UNION {PathsTo(mz, Append(path, n), to) :
                  n \in {c \in GridCells(mz) :
                           /\ Passage(mz, path[Len(path)], c)
                           /\ \A k \in 1..Len(path) : path[k] # c}}

\* find_path_DFS(maze, mzParam, best): entry of the call with a valid
\* entry-to-exit path handed in; len(best_path) > 1, so the stack starts
\* as [[i[0], i[1], 0xf] for i in best_path]
FindPathDFSFrom ==
    /\ pc = "ready"
    /\ NumCalls < MaxCalls
    /\ \A k \in 1..Len(results) : results[k].exhausted
    /\ \E best \in PathsTo(maze, <<mzParam.entry>>, mzParam.exit) :
          /\ Len(best) > 1
          /\ c_path' = [k \in 1..Len(best) |-> <<best[k][1], best[k][2], 15>>]
          /\ best_path' = best
          /\ results' = Append(results, [op |-> "best_path", path |-> best,
                                         exhausted |-> TRUE])
    /\ pc' = "find_path_DFS"
    /\ UNCHANGED <<yielded, config, env,
                   mzParam, rng, rstate, prev, animated, file, ret,
                   maze, m_path, scan, removed, path_>>

\* both finders on the small grids without the pattern request, the depth
\* search also started from a path handed in
InitBest == InitWith({p \in SmallParams : ~ p.insert_42}, {"any"})

NextBest ==
    \/ Generate
    \/ GenDFSStep
    \/ DoNotPrefectStep
    \/ FindPathBFS
    \/ FindPathDFS
    \/ FindPathDFSFrom
    \/ FindPathDFSStep
    \/ FindPathDFSReturn

SpecBest == InitBest /\ [][NextBest]_vars

----------------------------------------------------------------------------
\* every finished depth search has been followed by clear_tmp_data, so the
\* search that runs now, or starts next, meets no stamp of an earlier one
CleanStart ==
    \A k \in DFSResults :
        \E j \in (k + 1)..Len(results) : results[j].op = "clear_tmp_data"

\* the path handed to the running search as best_path; <<>> when none was
HandedIn ==
    IF results # <<>> /\ results[Len(results)].op = "best_path"
    THEN results[Len(results)].path
    ELSE <<>>

(* C25: during find_path_DFS started on a grid with cleared metadata, every
   replacement of the incumbent best path, by reaching the exit or by
   stitching the candidate prefix onto the incumbent's suffix at a shared
   cell, yields a valid wall-respecting entry-to-exit path that is strictly
   shorter than the incumbent it replaces; hence the returned path is valid
   and never longer than a valid bestSoFar passed in. *)
C25_ReplacementsShortenIncumbent ==
    [][(pc = "find_path_DFS" /\ CleanStart)
         => /\ (pc' = "find_path_DFS" /\ best_path' # best_path)
                 => /\ ValidPath(maze', mzParam, best_path')
                    /\ (best_path = <<>> \/ Len(best_path') < Len(best_path))
            /\ (pc' = "ready" /\ HandedIn # <<>>)
                 => /\ ValidPath(maze', mzParam, results'[Len(results')].path)
                    /\ Len(results'[Len(results')].path) <= Len(HandedIn)]_vars

\* a search that was handed a valid path of at least five points on a grid
\* without stamps has returned a shorter one
C25_Witness ==
    /\ pc = "ready"
    /\ Len(results) = 2
    /\ results[1].op = "best_path"
    /\ results[2].op = "find_path_DFS"
    /\ Len(results[1].path) >= 5
    /\ Len(results[2].path) < Len(results[1].path)
    /\ ValidPath(maze, mzParam, results[2].path)

(* C26: the time budget of find_path_DFS can only end the search after some
   path has been found: with an empty incumbent and a non-empty stack the
   only step is another iteration, so an empty result means the candidate
   stack was exhausted; and whenever the loop exits, on the clock or not,
   the value returned is the incumbent best path at that moment, which is
   the shortest path recorded so far (C25). *)
C26_ClockStopsOnlyWithAPath ==
    [][pc = "find_path_DFS"
         => /\ (best_path = <<>> /\ Len(c_path) > 0) => pc' = "find_path_DFS"
            /\ pc' = "ready"
                 => /\ results'[Len(results')].path = best_path
                    /\ results'[Len(results')].exhausted = (Len(c_path) = 0)
                    /\ best_path = <<>> => Len(c_path) = 0]_vars

\* a search was ended by the clock with frames still on its stack and
\* returned a path that is longer than the shortest one
C26_Witness ==
    /\ pc = "ready"
    /\ \E k \in DFSResults :
          /\ ~ results[k].exhausted
          /\ results[k].path # <<>>
          /\ Len(results[k].path) > Len(path_)

\* result k is that of a search started with an empty best_path on a grid
\* without stamps: the first search, or one that follows clear_tmp_data
CleanCall(k) ==
    /\ k \in DFSResults
    /\ \/ \A j \in 1..(k - 1) : results[j].op # "find_path_DFS"
       \/ (k > 1 /\ results[k - 1].op = "clear_tmp_data")
    /\ k > 1 => results[k - 1].op # "best_path"

(* C27: if find_path_DFS, started with an empty bestSoFar on a grid with
   cleared metadata, ends by exhausting its candidate stack, the path it
   returns has the same number of steps as the path find_path_BFS returns
   for the same grid, for perfect and imperfect mazes alike. *)
C27_ExhaustedDFSMatchesBFS ==
    pc = "ready"
    => \A k \in 1..Len(results) :
          (CleanCall(k) /\ results[k].exhausted)
          => Len(results[k].path) = Len(path_)

\* an exhaustive search on an imperfect grid with a removed wall found a
\* path of the length of the BFS path
C27_Witness ==
    /\ pc = "ready"
    /\ ~ mzParam.perfect
    /\ removed >= 1
    /\ Len(results) >= 1
    /\ CleanCall(1)
    /\ results[1].exhausted
    /\ Len(results[1].path) >= 4
    /\ Len(results[1].path) = Len(path_)

----------------------------------------------------------------------------
\* what this step adds to the values yielded so far
NewYields == SubSeq(yielded', Len(yielded) + 1, Len(yielded'))

\* the rectangles among them
NewRectangles == {NewYields[k] : k \in 1..Len(NewYields)} \ {None}

\* the cells whose stored value this step changes
ChangedCells == {c \in GridCells(maze) : At(maze', c) # At(maze, c)}

\* cell c lies in the inclusive rectangle r
InRectangle(c, r) ==
    /\ r[1] <= c[1] /\ c[1] <= r[3]
    /\ r[2] <= c[2] /\ c[2] <= r[4]

\* the rectangles yielded so far
Rectangles == {k \in 1..Len(yielded) : yielded[k] # None}

(* C23: the animated stages suspend only between whole mutations.  Every
   piece of work of gen_DFS_animated or do_not_prefect_animated that ends in
   the yield of a rectangle clears exactly one wall bit, and work that
   yields no rectangle changes nothing in the grid, so exactly one wall bit
   is cleared between two consecutive rectangles; at each suspension of the
   carver the cell behind the cleared wall is already marked visited; and
   each yielded rectangle (x-1, y-1, x+1, y+1) contains, inclusively, every
   cell whose stored value changed in that step. *)
C23_YieldsBetweenWholeMutations ==
    [][(animated /\ pc \in {"gen_DFS", "do_not_prefect"})
         => /\ Len(yielded') >= Len(yielded)
            /\ SubSeq(yielded', 1, Len(yielded)) = yielded
            /\ Cardinality(NewRectangles) <= 1
            /\ NewRectangles = {} => maze' = maze
            /\ \A r \in NewRectangles :
                  /\ NewYields[1] = r
                  /\ WallBits(maze') \subseteq WallBits(maze)
                  /\ Cardinality(WallBits(maze) \ WallBits(maze')) = 1
                  /\ \A c \in ChangedCells : InRectangle(c, r)
                  /\ \E n \in GridCells(maze) :
                        /\ Adjacent(<<r[1] + 1, r[2] + 1>>, n)
                        /\ WallBetween(<<r[1] + 1, r[2] + 1>>, n)
                              \in WallBits(maze) \ WallBits(maze')
                        /\ pc = "gen_DFS" => VisitedCell(At(maze', n))]_vars

\* an imperfect grid has been built by the animated stages on an empty
\* list: the carver and the injector both yielded rectangles, one for each
\* wall bit that is now cleared, and each stage ended with None
C23_Witness ==
    /\ animated
    /\ pc = "generated"
    /\ removed >= 1
    /\ Height(maze) = mzParam.height
    /\ yielded[Len(yielded)] = None
    /\ Cardinality(Rectangles) >= 4
    /\ Cardinality(Rectangles)
          = 2 * Cardinality(GridCells(maze)) - Cardinality(WallBits(maze))
    /\ \E k \in Rectangles : yielded[k][1] = -1

----------------------------------------------------------------------------
(* The interactive program: main and its key handler m_mykey *)

\* main after the first generate: path_ = find_path_BFS(maze_, c_mz_param),
\* then write_to_file(maze_, c_mz_param, path_)
MainFindPath ==
    /\ pc = "generated"
    /\ prev = <<>>
    /\ \E found \in {find_path_BFS(maze, mzParam)} :
          \E r \in {write_to_file(maze, mzParam, found, "")} :
             /\ path_' = found
             /\ ret' = r.ok
             /\ file' = IF r.ok THEN r.file ELSE file
    /\ pc' = "ready"
    /\ UNCHANGED <<yielded, config, env, mzParam, rng, rstate, prev, animated,
                   maze, m_path, scan, removed, c_path, best_path, results>>

\* key 1: maze_ = MazeGenerator.generate(c_mz_param), up to the first
\* carving step
Key1 ==
    /\ pc = "ready"
    /\ Len(prev) < MaxRegens
    /\ prev' = Append(prev, [maze |-> maze, animated |-> animated])
    /\ Carving(Placed(mzParam))
    /\ animated' = FALSE
    /\ UNCHANGED <<yielded, config, env, mzParam, rng, file, ret, path_,
                   c_path, best_path, results>>

\* key a: maze_ = [], then generate_animated(c_mz_param, maze_) is driven
\* to exhaustion; here up to the first carving step
KeyA ==
    /\ pc = "ready"
    /\ Len(prev) < MaxRegens
    /\ prev' = Append(prev, [maze |-> maze, animated |-> animated])
    /\ Carving(PlacedOn(<<>>, mzParam))
    /\ animated' = TRUE
    /\ yielded' = <<None, None, None>>
    /\ UNCHANGED <<config, env, mzParam, rng, file, ret, path_,
                   c_path, best_path, results>>

\* the end of the handlers of keys 1 and a:
\* if len(path_) > 0: path_ = find_path_BFS(maze_, c_mz_param)
KeyPathRefresh ==
    /\ pc = "generated"
    /\ prev # <<>>
    /\ path_' = IF Len(path_) > 0 THEN find_path_BFS(maze, mzParam) ELSE path_
    /\ pc' = "ready"
    /\ UNCHANGED <<yielded, config, env, mzParam, rng, rstate, prev, animated,
                   file, ret, maze, m_path, scan, removed, c_path, best_path,
                   results>>

\* key 2: show the path (clear_tmp_data, find_path_BFS) or hide it
Key2 ==
    /\ pc = "ready"
    /\ IF Len(path_) < 1
       THEN /\ maze' = clear_tmp_data(maze)
            /\ path_' = find_path_BFS(clear_tmp_data(maze), mzParam)
       ELSE /\ path_' = <<>>
            /\ maze' = maze
    /\ UNCHANGED <<yielded, config, env, mzParam, rng, rstate, prev, animated,
                   file, ret, pc, m_path, scan, removed, c_path, best_path,
                   results>>

\* key 3: two random.randint draws for the colours
Key3 ==
    /\ pc = "ready"
    /\ rstate' = After(After(rstate))
    /\ UNCHANGED <<yielded, config, env, mzParam, rng, prev, animated, file,
                   ret, pc, maze, m_path, scan, removed, path_, c_path,
                   best_path, results>>

\* key s: write_to_file(maze_, c_mz_param, path_)
KeyS ==
    /\ pc = "ready"
    /\ \E r \in {write_to_file(maze, mzParam, path_, "")} :
          /\ ret' = r.ok
          /\ file' = IF r.ok THEN r.file ELSE file
    /\ UNCHANGED <<yielded, config, env, mzParam, rng, rstate, prev, animated,
                   pc, maze, m_path, scan, removed, path_, c_path, best_path,
                   results>>

\* the parameters main is started with: an unseeded 3 x 2 grid, perfect and
\* imperfect, and a 2 x 2 grid whose validated entry is (-1, 0)
KeyParams ==
    {p \in RegenParams : /\ p.width = 3
                         /\ p.entry = <<0, 0>>
                         /\ p.exit = <<2, 1>>
                         /\ p.seed = <<>>}
    \cup {p \in NegParams : /\ p.entry = <<-1, 0>>
                            /\ p.exit = <<1, 1>>
                            /\ p.perfect}

InitKeys ==
    /\ mzParam \in KeyParams
    /\ rng = "stream"
    /\ rstate = 0
    /\ prev = <<>>
    /\ animated = FALSE
    /\ yielded = <<>>
    /\ config = NoConfig
    /\ env = <<>>
    /\ file = NoFile
    /\ ret = FALSE
    /\ pc = "init"
    /\ maze = <<>>
    /\ m_path = <<>>
    /\ scan = 0
    /\ removed = 0
    /\ path_ = "none"
    /\ c_path = <<>>
    /\ best_path = <<>>
    /\ results = <<>>

NextKeys ==
    \/ Generate
    \/ GenDFSStep
    \/ DoNotPrefectStep
    \/ GenDFSAnimatedStep
    \/ DoNotPrefectAnimatedStep
    \/ MainFindPath
    \/ Key1
    \/ KeyA
    \/ KeyPathRefresh
    \/ Key2
    \/ Key3
    \/ KeyS

SpecKeys == InitKeys /\ [][NextKeys]_vars

\* what the direction line of the written file visits from the entry
FileWalk == Decode(mzParam.entry, file.lines[Len(file.lines)])

\* the wall bit a direction letter has to find cleared
LetterBit(ch) ==
    CASE ch = "N" -> 1
      [] ch = "E" -> 2
      [] ch = "S" -> 4
      [] ch = "W" -> 8
      [] OTHER -> 0

\* the hex digit the written file holds for cell c
FileCell(c) == HexVal[file.lines[c[2] + 1][c[1] + 1]]

\* the direction line of the written file, followed from the entry over the
\* hex grid of that file, stays in the grid, crosses no wall and ends at the
\* exit
FileWalkReachesExit ==
    LET dirs == file.lines[Len(file.lines)]
        h == Len(file.lines) - 4
        w == Len(file.lines[1])
    IN  /\ \A i \in 1..Len(FileWalk) :
              /\ FileWalk[i][1] \in 0..(w - 1)
              /\ FileWalk[i][2] \in 0..(h - 1)
        /\ \A i \in 1..Len(dirs) :
              /\ LetterBit(dirs[i]) # 0
              /\ And(FileCell(FileWalk[i]), LetterBit(dirs[i])) = 0
        /\ FileWalk[Len(FileWalk)] = mzParam.exit

(* C28: in the interactive program, after any sequence of key events (1
   regenerate, a animated regenerate, 2 toggle path, 3 change colour, s
   save) the held path is either empty or a valid entry-to-exit path of the
   currently held maze; therefore every save writes a file whose direction
   line, followed from the entry over the hex grid of that same file,
   crosses no wall and ends at the exit. *)
C28_HeldPathFitsHeldMaze ==
    /\ pc = "ready" => (path_ = <<>> \/ ValidPath(maze, mzParam, path_))
    /\ file # NoFile => FileWalkReachesExit


----------------------------------------------------------------------------
(* Reading the configuration *)

\* the parameters before a CMazeParams record is built
NoParams == [unset |-> TRUE]

\* (not (file_name is None)) and len(file_name) > 0
NonEmptyName(cfg) == cfg.file_name # <<>> /\ cfg.file_name[1] # ""

\* load_dotenv(file_name, override=False): the parameters of the file are
\* set unless the environment holds them already; a file that is not found
\* sets nothing
load_dotenv(cfg, e) == IF cfg.exists /\ e = <<>> THEN cfg.holds ELSE e

\* CMazeParams.fm_read_config(file_name): the flag it returns and the
\* environment it leaves
CMazeParams_fm_read_config(cfg, e) ==
    IF NonEmptyName(cfg)
    THEN [ret |-> FALSE, env |-> e]
    ELSE IF cfg.raises
         THEN [ret |-> FALSE, env |-> e]
         ELSE [ret |-> TRUE, env |-> load_dotenv(cfg, e)]

\* fm_read_config of a_maze_ing.py
fm_read_config(cfg, e) ==
    IF NonEmptyName(cfg)
    THEN IF ~ cfg.exists
         THEN [ret |-> FALSE, env |-> e]
         ELSE IF cfg.raises
              THEN [ret |-> FALSE, env |-> e]
              ELSE [ret |-> TRUE, env |-> load_dotenv(cfg, e)]
    ELSE [ret |-> TRUE, env |-> e]

\* fm_check_param: False when os.getenv finds a parameter not set
fm_check_param(e) == e # <<>>

\* a call CMazeParams.fm_read_config(file_name)
FmReadConfig ==
    /\ pc = "config"
    /\ ret' = CMazeParams_fm_read_config(config, env).ret
    /\ env' = CMazeParams_fm_read_config(config, env).env
    /\ pc' = "config_read"
    /\ UNCHANGED <<mzParam, rng, rstate, prev, animated, file, maze, m_path,
                   scan, removed, path_, c_path, best_path, results,
                   yielded, config>>

\* CMazeParams.create_param_from_file(file_name): reads the file when a name
\* is given and drops the flag, raises ValueError when WIDTH or HEIGHT is
\* not set, and builds the record from the environment, which raises when
\* the validator rejects it
CreateParamFromFile ==
    /\ pc \in {"config", "config_read"}
    /\ LET named == config.file_name # <<>>
           e == IF named
                THEN CMazeParams_fm_read_config(config, env).env
                ELSE env
       IN  /\ env' = e
           /\ IF (named /\ ~ fm_check_param(e))
                 \/ e = <<>>
                 \/ ~ params_validator(e[1])
              THEN /\ pc' = "raised"
                   /\ mzParam' = mzParam
              ELSE /\ pc' = "init"
                   /\ mzParam' = e[1]
    /\ UNCHANGED <<rng, rstate, prev, animated, file, ret, maze, m_path,
                   scan, removed, path_, c_path, best_path, results,
                   yielded, config>>

\* main: fm_read_config(sys.argv[1])
MainReadConfig ==
    /\ pc = "config"
    /\ config.file_name # <<>>
    /\ ret' = fm_read_config(config, env).ret
    /\ env' = fm_read_config(config, env).env
    /\ pc' = "main_read"
    /\ UNCHANGED <<mzParam, rng, rstate, prev, animated, file, maze, m_path,
                   scan, removed, path_, c_path, best_path, results,
                   yielded, config>>

\* main: sys.exit(1) when the file was not read, when a parameter is not
\* set or when CMazeParams raises ValidationError; c_mz_param otherwise
MainParams ==
    /\ pc = "main_read"
    /\ IF ~ ret \/ ~ fm_check_param(env) \/ ~ params_validator(env[1])
       THEN /\ pc' = "exit"
            /\ mzParam' = mzParam
       ELSE /\ pc' = "init"
            /\ mzParam' = env[1]
    /\ UNCHANGED <<rng, rstate, prev, animated, file, ret, maze, m_path,
                   scan, removed, path_, c_path, best_path, results,
                   yielded, config, env>>

\* the parameters a configuration file or the environment holds: an
\* unseeded 3 x 2 grid without the pattern, perfect and imperfect, and a
\* record whose entry equals its exit
ConfigParams ==
    {p \in [width : {3}, height : {2},
            entry : {<<0, 0>>},
            exit : {<<2, 1>>, <<0, 0>>},
            perfect : BOOLEAN, insert_42 : {FALSE}, seed : {<<>>},
            output_file : {"maze.txt"},
            probability_to_del_dead_end : {99}] :
        p.entry = p.exit => p.perfect}

\* the file names handed in (None, "" and a name), with what os.path.isfile
\* and load_dotenv find; the empty name is no file, a missing file does not
\* raise
ConfigFiles ==
    {c \in [file_name : {<<>>, <<"">>, <<"config.txt">>},
            exists : BOOLEAN, raises : BOOLEAN,
            holds : {<<p>> : p \in ConfigParams}] :
        /\ c.raises => c.exists
        /\ c.file_name = <<"">> => ~ c.exists}

InitConfig ==
    /\ mzParam = NoParams
    /\ rng = "any"
    /\ rstate = 0
    /\ prev = <<>>
    /\ animated = FALSE
    /\ yielded = <<>>
    /\ config \in ConfigFiles
    /\ env \in {<<>>} \cup {<<p>> : p \in {q \in ConfigParams : ~ q.perfect}}
    /\ file = NoFile
    /\ ret = FALSE
    /\ pc = "config"
    /\ maze = <<>>
    /\ m_path = <<>>
    /\ scan = 0
    /\ removed = 0
    /\ path_ = "none"
    /\ c_path = <<>>
    /\ best_path = <<>>
    /\ results = <<>>

NextConfig ==
    \/ FmReadConfig
    \/ CreateParamFromFile
    \/ MainReadConfig
    \/ MainParams
    \/ Generate
    \/ GenDFSStep
    \/ DoNotPrefectStep

SpecConfig == InitConfig /\ [][NextConfig]_vars

\* the file named was there and load_dotenv read it without an error
ReadSucceeded == config.exists /\ ~ config.raises

(* C29: CMazeParams.fm_read_config returns True if reading was successful:
   for a non-empty file name it returns True when the file exists and is
   loaded without error, and returns False only when the file is missing or
   loading raised an error. *)
C29_ReadConfigReportsSuccess ==
    (pc = "config_read" /\ NonEmptyName(config)) => (ret <=> ReadSucceeded)

\* the same statement about fm_read_config of a_maze_ing.py
MainReadConfigReportsSuccess ==
    (pc = "main_read" /\ NonEmptyName(config)) => (ret <=> ReadSucceeded)

\* a file that was there and readable has been handed to
\* CMazeParams.fm_read_config
ReadableFileRead ==
    pc = "config_read" /\ NonEmptyName(config) /\ ReadSucceeded

=============================================================================
